---- MODULE Spec2Model ----
(***************************************************************************)
(* Delegation & task lifecycle engine of AgenticCEO:                       *)
(*   TaskManager (task_manager.py), AgenticCEO.run_task (agentic_ceo.py),  *)
(*   CompanyBrain routing (company_brain.py) and VirtualStaffManager       *)
(*   (virtual_staff_manager.py).                                           *)
(* Every public operation is one action; the batch loop of                 *)
(* run_pending_tasks is one action that folds over the task list.          *)
(***************************************************************************)
EXTENDS Integers, Sequences, FiniteSets, TLC

VARIABLES
    tasks,       \* CEOState.tasks: sequence of CEOTask records
    links,       \* TaskManager._meta["links"]: parent id -> sequence of child ids
    reviews,     \* TaskManager._meta["reviews"]: task id -> review status
    employees,   \* VirtualStaffManager._employees: sequence of VirtualEmployee
    tools,       \* AgenticCEO.tools: names of the registered tools
    execution_mode,  \* AgenticCEO.execution_mode
    brain_execution_mode,  \* CompanyBrain.execution_mode, set by from_config
    kpi,         \* KPIEngine.thresholds, MemoryEngine "kpis", the events given to
                 \* ingest_event, KPITrendAnalyzer._kpi_history of one metric
    writers,     \* two processes of one company: the persisted documents and the
                 \* copy each process loaded
    scheduler,   \* run_continuous_scheduler: its position, shutdown_event, counters
    reviewers,   \* two review_task calls in flight on one TaskManager: their positions
    last         \* the last call: its name, arguments, whether it raised, what it returned

vars == <<tasks, links, reviews, employees, tools, execution_mode, brain_execution_mode, kpi,
          writers, scheduler, reviewers, last>>

\* ---------------------------------------------------------------------
\* Bounds of the model
\* ---------------------------------------------------------------------
MaxTasks == 3         \* tasks of the review specification
MaxRunTasks == 2      \* tasks of the lifecycle specification
MaxRouteTasks == 1    \* tasks of the routing specification
MaxEmployees == 2     \* workers in the roster
MaxAssigned == 2      \* tasks_assigned_today of a worker
MaxSlots == 2         \* min_task_slots / max_daily_tasks asked of the staff manager

\* ---------------------------------------------------------------------
\* Python string operations, on TLA+ strings
\* ---------------------------------------------------------------------
None == "<None>"
NoId == 0    \* Optional[...] = None for a task id / a list index

CharAt(s, i) == SubSeq(s, i, i)

LowerChar(c) ==
    CASE c = "A" -> "a" [] c = "B" -> "b" [] c = "C" -> "c" [] c = "D" -> "d"
      [] c = "E" -> "e" [] c = "F" -> "f" [] c = "G" -> "g" [] c = "H" -> "h"
      [] c = "I" -> "i" [] c = "J" -> "j" [] c = "K" -> "k" [] c = "L" -> "l"
      [] c = "M" -> "m" [] c = "N" -> "n" [] c = "O" -> "o" [] c = "P" -> "p"
      [] c = "Q" -> "q" [] c = "R" -> "r" [] c = "S" -> "s" [] c = "T" -> "t"
      [] c = "U" -> "u" [] c = "V" -> "v" [] c = "W" -> "w" [] c = "X" -> "x"
      [] c = "Y" -> "y" [] c = "Z" -> "z" [] OTHER -> c

RECURSIVE Lower(_)
Lower(s) == IF s = "" THEN "" ELSE LowerChar(CharAt(s, 1)) \o Lower(SubSeq(s, 2, Len(s)))

RECURSIVE LStrip(_)
LStrip(s) == IF s # "" /\ CharAt(s, 1) = " " THEN LStrip(SubSeq(s, 2, Len(s))) ELSE s

RECURSIVE RStrip(_)
RStrip(s) == IF s # "" /\ CharAt(s, Len(s)) = " " THEN RStrip(SubSeq(s, 1, Len(s) - 1)) ELSE s

Strip(s) == RStrip(LStrip(s))

StartsWith(s, p) == Len(p) <= Len(s) /\ SubSeq(s, 1, Len(p)) = p

\* Python's `k in s` for strings
Contains(s, k) == \E i \in 1..(Len(s) - Len(k) + 1) : SubSeq(s, i, i + Len(k) - 1) = k

RECURSIVE ReplaceChar(_, _, _)
ReplaceChar(s, c, d) ==
    IF s = "" THEN ""
    ELSE (IF CharAt(s, 1) = c THEN d ELSE CharAt(s, 1)) \o ReplaceChar(SubSeq(s, 2, Len(s)), c, d)

\* str.split(): the words between runs of blanks
RECURSIVE SplitFrom(_, _)
SplitFrom(s, word) ==
    IF s = "" THEN (IF word = "" THEN <<>> ELSE <<word>>)
    ELSE IF CharAt(s, 1) = " "
         THEN (IF word = "" THEN <<>> ELSE <<word>>) \o SplitFrom(SubSeq(s, 2, Len(s)), "")
         ELSE SplitFrom(SubSeq(s, 2, Len(s)), word \o CharAt(s, 1))

Split(s) == SplitFrom(s, "")

Range(f) == {f[i] : i \in DOMAIN f}

\* ---------------------------------------------------------------------
\* Inputs of the operations
\* ---------------------------------------------------------------------
\* the tools _parse_tasks suggests
ParserTools == {"log_tool", "slack_tool"}

\* areas and owner labels of the tasks of the lifecycle specification
SpecAreas == {"general"}
SpecOwners == {"CEO-Agent"}
SpecTools == {"log_tool"}

\* areas and owner labels of the tasks of the routing specification
RouteAreas == {"general", "growth"}
RouteOwners == {"CEO-Agent", "Virtual SDR", "content_writer", "Content Writer",
                "Staff Writer", "Head of Growth"}

\* ---------------------------------------------------------------------
\* CompanyBrain: owner labels and areas (company_brain.py)
\* ---------------------------------------------------------------------
\* load_role_configs(): role_id -> VirtualEmployeeConfig, in the dict's order
ve_role_configs ==
    << [role_id |-> "content_writer", title |-> "Content Writer"],
       [role_id |-> "product_manager", title |-> "Product Manager"] >>

RoleIds == {ve_role_configs[k].role_id : k \in DOMAIN ve_role_configs}

MinTaskSlots == 10

\* the dict human_to_virtual, in its order
human_to_virtual ==
    << <<"head of product", "Virtual Product Manager">>,
       <<"product manager", "Virtual Product Manager">>,
       <<"product lead", "Virtual Product Manager">>,
       <<"head of growth", "Virtual Growth Marketer">>,
       <<"growth lead", "Virtual Growth Marketer">>,
       <<"growth manager", "Virtual Growth Marketer">>,
       <<"head of sales", "Virtual Sales Account Exec">>,
       <<"sales manager", "Virtual Sales Account Exec">>,
       <<"account executive", "Virtual Sales Account Exec">>,
       <<"sales account exec", "Virtual Sales Account Exec">>,
       <<"head of ops", "Virtual Ops Manager">>,
       <<"operations lead", "Virtual Ops Manager">>,
       <<"operations manager", "Virtual Ops Manager">>,
       <<"head of operations", "Virtual Ops Manager">>,
       <<"head of hr", "Virtual HR Manager">>,
       <<"hr manager", "Virtual HR Manager">>,
       <<"talent lead", "Virtual HR Manager">>,
       <<"head of marketing", "Virtual Social Media Manager">>,
       <<"marketing manager", "Virtual Social Media Manager">>,
       <<"social media", "Virtual Social Media Manager">> >>

\* the first index at which a loop's test holds (tests: one flag per element), NoId if none
FirstIndex(tests) ==
    IF \E k \in 1..Len(tests) : tests[k]
    THEN CHOOSE k \in 1..Len(tests) : tests[k] /\ \A j \in 1..(k - 1) : ~tests[j]
    ELSE NoId

\* role_lower of _normalize_role_to_role_id after `role_lower[8:].strip()`
drop_virtual(role_lower) ==
    IF StartsWith(role_lower, "virtual ")
    THEN Strip(SubSeq(role_lower, 9, Len(role_lower)))
    ELSE role_lower

strip_virtual(role_name) == drop_virtual(Strip(Lower(role_name)))

underscored(s) == ReplaceChar(ReplaceChar(s, " ", "_"), "-", "_")

\* a variant of the key words that keeps the words of three letters
key_words_from_three(role_lower) == SelectSeq(Split(role_lower), LAMBDA w : Len(w) > 2)

key_words(role_lower) == SelectSeq(Split(role_lower), LAMBDA w : Len(w) > 3)

\* the partial match of one config: a key word in its role_id or in its title
partial_match(config, words) ==
    \/ \E w \in Range(words) : Contains(config.role_id, w)
    \/ \E w \in Range(words) : Contains(Lower(config.title), w)

\* the three matches of _normalize_role_to_role_id over the dict configs, in
\* order: a role_id, or None
match_role_id_in(configs, role_lower) ==
    LET normalized == underscored(role_lower)
        ids == {configs[c].role_id : c \in DOMAIN configs}
        k == FirstIndex([c \in DOMAIN configs |->
                             partial_match(configs[c], key_words(role_lower))])
    IN IF role_lower \in ids THEN role_lower
       ELSE IF normalized \in ids THEN normalized
       ELSE IF k # NoId THEN configs[k].role_id
       ELSE None

\* the same with self._ve_role_configs
match_role_id(role_lower) == match_role_id_in(ve_role_configs, role_lower)

\* CompanyBrain._normalize_role_to_role_id
normalize_role_to_role_id(role_name) == match_role_id(strip_virtual(role_name))

config_title(role_id) ==
    ve_role_configs[FirstIndex([c \in DOMAIN ve_role_configs |->
                                    ve_role_configs[c].role_id = role_id])].title

\* CompanyBrain._has_virtual_employee_assignment
has_virtual_employee_assignment(suggested_owner) ==
    LET owner == Strip(suggested_owner)
        owner_lower == Lower(owner)
    IN /\ owner # ""
       /\ \/ Contains(owner_lower, "virtual")
          \/ owner \in RoleIds
          \/ underscored(owner_lower) \in RoleIds

AnyIn(keys, area) == \E key \in keys : Contains(area, key)

\* the agent _maybe_delegate_task_to_agent picks for the task's area, or None
agent_for_area(task_area) ==
    LET area == Lower(task_area)
    IN IF AnyIn({"revenue", "growth", "mrr", "mau", "marketing", "sales"}, area)
       THEN "CROAgent"
       ELSE IF AnyIn({"ops", "operations", "cx", "customer success", "service", "support"}, area)
       THEN "COOAgent"
       ELSE IF AnyIn({"product", "tech", "engineering", "data", "ai"}, area)
       THEN "CTOAgent"
       ELSE None

\* the owner the `if role_id:` branch writes: the config's title with a "Virtual" prefix
virtual_title(owner_lower, title) ==
    IF ~StartsWith(owner_lower, "virtual") THEN "Virtual " \o title
    ELSE IF StartsWith(title, "Virtual") THEN title ELSE "Virtual " \o title

\* the loop over human_to_virtual: the virtual role of the first label in owner_lower, or None
alias_of(owner_lower) ==
    LET k == FirstIndex([p \in DOMAIN human_to_virtual |->
                                Contains(owner_lower, human_to_virtual[p][1])])
    IN IF k # NoId THEN human_to_virtual[k][2] ELSE None

\* what the owner label becomes, given the role_id it normalizes to and its alias.
\*   owner: the label after normalization / the alias table
\*   role_id: the YAML role it was normalized to, or None
\*   renamed: task.suggested_owner is overwritten with owner
\*   virtual: "virtual" in owner_lower, the test that lets the task into the pool
renamed_owner(owner0, role_id0, alias) ==
    LET owner == IF role_id0 # None THEN virtual_title(Lower(owner0), config_title(role_id0))
                 ELSE IF alias # None THEN alias
                 ELSE owner0
    IN [empty |-> owner0 = "",
        owner |-> owner,
        role_id |-> IF role_id0 # None THEN role_id0
                    ELSE IF alias # None THEN normalize_role_to_role_id(owner)
                    ELSE None,
        renamed |-> role_id0 # None \/ alias # None,
        virtual |-> Contains(Lower(owner), "virtual")]

\* lines 387-448 of _maybe_route_task_to_virtual_staff on the task's owner label
resolve_owner(suggested_owner) ==
    renamed_owner(Strip(suggested_owner),
                  normalize_role_to_role_id(Strip(suggested_owner)),
                  alias_of(Lower(Strip(suggested_owner))))

\* the test of find_by_role: role_substring.lower() in the role / the title, lower-cased
role_matches(role_or_title, role_substring) ==
    Contains(Lower(role_or_title), Lower(role_substring))

\* Every owner label a task or a worker can carry: the planned ones and what
\* the routing renames them to.
OwnerLabels == SpecOwners \cup RouteOwners \cup {"Virtual Content Writer", "Virtual Growth Marketer"}

AreaLabels == SpecAreas \cup RouteAreas

\* The label functions, tabulated over the labels of the model
\* (each entry is the operator's value; the tables only save recomputation).
ResolvedOwner == [o \in OwnerLabels |-> resolve_owner(o)]
HasAssignment == [o \in OwnerLabels |-> has_virtual_employee_assignment(o)]
AgentForArea == [a \in AreaLabels |-> agent_for_area(a)]
RoleMatches == [r \in OwnerLabels |-> {q \in OwnerLabels : role_matches(r, q)}]

\* ---------------------------------------------------------------------
\* CEOTask and the TaskManager helpers (task_manager.py)
\* ---------------------------------------------------------------------
\* CEOTask(...): status "todo", approval flags False
CEOTask(id, area, suggested_owner, suggested_tool) ==
    [id |-> id, status |-> "todo", area |-> area,
     suggested_owner |-> suggested_owner, suggested_tool |-> suggested_tool,
     requires_approval |-> FALSE, approved |-> FALSE]

\* uuid4(): an id no task has yet
NewTaskId(ts) == Len(ts) + 1

\* TaskManager._find_task: the index of the first task with that id, NoId if none
find_task(ts, task_id) ==
    IF \E i \in 1..Len(ts) : ts[i].id = task_id
    THEN CHOOSE i \in 1..Len(ts) : ts[i].id = task_id /\ \A j \in 1..(i - 1) : ts[j].id # task_id
    ELSE NoId

get_children_ids(lk, parent_id) == IF parent_id \in DOMAIN lk THEN lk[parent_id] ELSE <<>>

\* TaskManager._get_parent_id: the first parent of the links dict that lists the child
\* (create_subtask links a fresh id under one parent, so there is at most one)
get_parent_id(lk, child_id) ==
    LET ps == {p \in DOMAIN lk : child_id \in Range(lk[p])}
    IN IF ps = {} THEN NoId ELSE CHOOSE p \in ps : \A q \in ps : p <= q

get_review_status(rv, task_id) == IF task_id \in DOMAIN rv THEN rv[task_id] ELSE "none"

\* a variant that stamps the status on every record the dict holds
set_review_on_all(rv, task_id, status) ==
    [x \in (DOMAIN rv) \cup {task_id} |-> status]

set_review(rv, task_id, status) ==
    [x \in (DOMAIN rv) \cup {task_id} |-> IF x = task_id THEN status ELSE rv[x]]

\* the child tasks that exist, in the order of the children list
RECURSIVE children_tasks(_, _)
children_tasks(ts, cids) ==
    IF cids = <<>> THEN <<>>
    ELSE (IF find_task(ts, Head(cids)) # NoId THEN <<ts[find_task(ts, Head(cids))]>> ELSE <<>>)
         \o children_tasks(ts, Tail(cids))

\* a variant of the test that forgets the review: all done
all_children_done(cts, rv) ==
    \A k \in 1..Len(cts) : cts[k].status = "done"

\* a variant of the test that stops at the first child that passes
some_child_done_and_approved(cts, rv) ==
    \E k \in 1..Len(cts) : cts[k].status = "done" /\ get_review_status(rv, cts[k].id) = "approved"

\* the test of the loop over the children: all done AND approved
all_children_done_and_approved(cts, rv) ==
    \A k \in 1..Len(cts) : cts[k].status = "done" /\ get_review_status(rv, cts[k].id) = "approved"

\* a variant of the propagation that tests the grandparent on the task list as it
\* was before the parent was closed
auto_close_on_stale_list(ts, lk, rv, parent_id) ==
    LET pi == find_task(ts, parent_id)
        cts == children_tasks(ts, get_children_ids(lk, parent_id))
        grandparent_id == get_parent_id(lk, parent_id)
        gi == find_task(ts, grandparent_id)
        gts == children_tasks(ts, get_children_ids(lk, grandparent_id))
    IN IF pi = NoId \/ cts = <<>> \/ ~all_children_done_and_approved(cts, rv) THEN ts
       ELSE IF gi # NoId /\ gts # <<>> /\ all_children_done_and_approved(gts, rv)
       THEN [ts EXCEPT ![pi].status = "done", ![gi].status = "done"]
       ELSE [ts EXCEPT ![pi].status = "done"]

\* TaskManager._maybe_auto_close_parent_chain: the task list after the propagation
RECURSIVE maybe_auto_close_parent_chain(_, _, _, _)
maybe_auto_close_parent_chain(ts, lk, rv, parent_id) ==
    LET pi == find_task(ts, parent_id)
        cids == get_children_ids(lk, parent_id)
        cts == children_tasks(ts, cids)
    IN IF pi = NoId THEN ts
       ELSE IF cids = <<>> THEN ts
       ELSE IF cts = <<>> THEN ts
       ELSE IF ~all_children_done_and_approved(cts, rv) THEN ts
       ELSE LET closed == [ts EXCEPT ![pi].status = "done"]
                grandparent_id == get_parent_id(lk, parent_id)
            IN IF grandparent_id # NoId
               THEN maybe_auto_close_parent_chain(closed, lk, rv, grandparent_id)
               ELSE closed

\* the record of a call: again = it repeats the call before it (same operation and
\* arguments), pending = the not-done tasks run_pending_tasks found
Call(op, id, approved, raised, results) ==
    [op |-> op, id |-> id, approved |-> approved, raised |-> raised, results |-> results,
     again |-> FALSE, pending |-> 0]

\* ---------------------------------------------------------------------
\* VirtualStaffManager (virtual_staff_manager.py)
\* ---------------------------------------------------------------------
Max(a, b) == IF a >= b THEN a ELSE b

\* VirtualEmployee.create: title defaults to the role, active, counter 0
VirtualEmployee(id, role, max_daily_tasks) ==
    [id |-> id, role |-> role, title |-> role, max_daily_tasks |-> max_daily_tasks,
     tasks_assigned_today |-> 0, active |-> TRUE]

find_by_role(emps, role_substring) ==
    SelectSeq(emps, LAMBDA e :
        e.active /\ \E label \in {e.role, e.title} : role_substring \in RoleMatches[label])

\* a variant of the sum without the clamp at zero
RECURSIVE total_slots_unclamped(_)
total_slots_unclamped(emps) ==
    IF emps = <<>> THEN 0
    ELSE (Head(emps).max_daily_tasks - Head(emps).tasks_assigned_today)
         + total_slots_unclamped(Tail(emps))

RECURSIVE total_slots(_)
total_slots(emps) ==
    IF emps = <<>> THEN 0
    ELSE Max(0, Head(emps).max_daily_tasks - Head(emps).tasks_assigned_today)
         + total_slots(Tail(emps))

\* the dict _estimate_capacity_for_role builds from the workers find_by_role returns
capacity(matching) ==
    [count |-> Len(matching), remaining_task_slots |-> total_slots(matching)]

estimate_capacity_for_role(emps, role) == capacity(find_by_role(emps, role))

create_virtual_employee(emps, role, max_daily_tasks) ==
    Append(emps, VirtualEmployee(Len(emps) + 1, role, max_daily_tasks))

\* `existing[0] if existing else None`
first_employee(existing) == IF existing # <<>> THEN existing[1].id ELSE NoId

\* a variant that also provisions when the remaining slots equal min_task_slots
ensure_capacity_at_or_below(emps, role, min_task_slots, before) ==
    LET created == before.remaining_task_slots <= min_task_slots
        after_emps == IF created THEN create_virtual_employee(emps, role, min_task_slots) ELSE emps
    IN [employees |-> after_emps, created |-> created,
        employee |-> IF created THEN Len(emps) + 1 ELSE first_employee(find_by_role(emps, role)),
        capacity_before |-> before,
        capacity_after |-> estimate_capacity_for_role(after_emps, role)]

\* ensure_capacity_for_role after `before = self._estimate_capacity_for_role(role)`
ensure_capacity(emps, role, min_task_slots, before) ==
    LET created == before.remaining_task_slots < min_task_slots
        after_emps == IF created THEN create_virtual_employee(emps, role, min_task_slots) ELSE emps
    IN [employees |-> after_emps, created |-> created,
        employee |-> IF created THEN Len(emps) + 1 ELSE first_employee(find_by_role(emps, role)),
        capacity_before |-> before,
        capacity_after |-> estimate_capacity_for_role(after_emps, role)]

\* ensure_capacity_for_role: the roster after the call and the returned dict
ensure_capacity_for_role(emps, role, min_task_slots) ==
    ensure_capacity(emps, role, min_task_slots, estimate_capacity_for_role(emps, role))

\* a variant that does not test `e.active`
assign_task_ignoring_active(emps, employee_id) ==
    IF \E k \in 1..Len(emps) : emps[k].id = employee_id
    THEN LET k == CHOOSE k \in 1..Len(emps) : emps[k].id = employee_id
         IN [emps EXCEPT ![k].tasks_assigned_today = @ + 1]
    ELSE emps

assign_task_to_virtual_employee(emps, employee_id) ==
    IF \E k \in 1..Len(emps) : emps[k].id = employee_id /\ emps[k].active
    THEN LET k == CHOOSE k \in 1..Len(emps) :
                      /\ emps[k].id = employee_id /\ emps[k].active
                      /\ \A j \in 1..(k - 1) : ~(emps[j].id = employee_id /\ emps[j].active)
         IN [emps EXCEPT ![k].tasks_assigned_today = @ + 1]
    ELSE emps

\* ---------------------------------------------------------------------
\* AgenticCEO.run_task (agentic_ceo.py)
\* ---------------------------------------------------------------------
\* What tool.run(payload) can do: LogTool.run appends to its sink and returns ok;
\* SlackTool.run posts over HTTP: it returns {"ok": resp.ok} or raises.
ToolOutcomes(tool) == IF tool = "slack_tool" THEN {"ok", "not_ok", "raise"} ELSE {"ok"}

\* run_task: the task's status after the call, the returned status, what the tool did
RunResult(task_status, status, tool_called, tool_raised) ==
    [task_status |-> task_status, status |-> status,
     tool_called |-> tool_called, tool_raised |-> tool_raised]

\* a variant of run_task without the approval branch
run_task_without_approval(t, mode, registered, tool_outcome) ==
    IF mode = "dry_run"
    THEN RunResult(t.status, "skipped", FALSE, FALSE)
    ELSE IF t.suggested_tool # None /\ t.suggested_tool \in registered
    THEN IF tool_outcome = "raise"
         THEN RunResult("blocked", "error", TRUE, TRUE)
         ELSE IF tool_outcome = "not_ok"
         THEN RunResult("blocked", "error", TRUE, FALSE)
         ELSE RunResult("done", "done", TRUE, FALSE)
    ELSE RunResult("done", "done", FALSE, FALSE)

run_task(t, mode, registered, tool_outcome) ==
    IF mode = "dry_run"
    THEN RunResult(t.status, "skipped", FALSE, FALSE)
    ELSE IF mode = "approval" /\ t.requires_approval /\ ~t.approved
    THEN RunResult("blocked", "blocked", FALSE, FALSE)
    ELSE IF t.suggested_tool # None /\ t.suggested_tool \in registered
    THEN IF tool_outcome = "raise"
         THEN RunResult("blocked", "error", TRUE, TRUE)
         ELSE IF tool_outcome = "not_ok"
         THEN RunResult("blocked", "error", TRUE, FALSE)
         ELSE RunResult("done", "done", TRUE, FALSE)
    ELSE RunResult("done", "done", FALSE, FALSE)

\* ---------------------------------------------------------------------
\* CompanyBrain.run_pending_tasks and its tiers (company_brain.py)
\* ---------------------------------------------------------------------
NotRouted(ts, emps) == [tasks |-> ts, employees |-> emps, routed |-> FALSE]

\* a variant that counts the task on the worker only when the worker's run succeeded
route_to_worker_counting_successes(ts1, i, oc, mode, registered, ro, cap) ==
    LET ceo == run_task(ts1[i], mode, registered, oc.tool)
        ve_ran == ro.role_id # None
        ve_raised == ve_ran /\ oc.exec = "raise"
    IN IF cap.employee = NoId THEN NotRouted(ts1, cap.employees)
       ELSE [tasks |-> [ts1 EXCEPT ![i].status =
                            IF ve_ran /\ ~ve_raised THEN "done" ELSE ceo.task_status],
             employees |-> IF ve_raised THEN cap.employees
                           ELSE assign_task_to_virtual_employee(cap.employees, cap.employee),
             routed |-> TRUE,
             status |-> IF ve_raised THEN "error" ELSE "done",
             executor_raised |-> ve_raised,
             fallback |-> ~ve_ran \/ ve_raised,
             tool_raised |-> (~ve_ran \/ ve_raised) /\ ceo.tool_raised,
             created |-> cap.created,
             virtual_employee_id |-> cap.employee]

\* lines 460-525 of _maybe_route_task_to_virtual_staff: the worker is assigned and
\* the task executed. ts1: the tasks after the rename, cap: what ensure_capacity_for_role returns
route_to_worker(ts1, i, oc, mode, registered, ro, cap) ==
    LET ceo == run_task(ts1[i], mode, registered, oc.tool)
        ve_ran == ro.role_id # None
        ve_raised == ve_ran /\ oc.exec = "raise"
    IN IF cap.employee = NoId THEN NotRouted(ts1, cap.employees)
       ELSE [tasks |-> [ts1 EXCEPT ![i].status =
                            IF ve_ran /\ ~ve_raised THEN "done" ELSE ceo.task_status],
             employees |-> assign_task_to_virtual_employee(cap.employees, cap.employee),
             routed |-> TRUE,
             status |-> IF ve_raised THEN "error" ELSE "done",
             executor_raised |-> ve_raised,
             fallback |-> ~ve_ran \/ ve_raised,
             tool_raised |-> (~ve_ran \/ ve_raised) /\ ceo.tool_raised,
             created |-> cap.created,
             virtual_employee_id |-> cap.employee]

\* a variant of the routing without the test `"virtual" not in owner_lower`
route_owner_without_virtual_test(ts, emps, i, oc, mode, registered, ro) ==
    LET ts1 == IF ro.renamed THEN [ts EXCEPT ![i].suggested_owner = ro.owner] ELSE ts
    IN IF ro.empty THEN NotRouted(ts, emps)
       ELSE route_to_worker(ts1, i, oc, mode, registered, ro,
                            ensure_capacity_for_role(emps, ro.owner, MinTaskSlots))

\* a variant of the routing that ensures capacity before it tests the label
route_owner_capacity_first(ts, emps, i, oc, mode, registered, ro) ==
    LET ts1 == IF ro.renamed THEN [ts EXCEPT ![i].suggested_owner = ro.owner] ELSE ts
    IN IF ro.empty THEN NotRouted(ts, emps)
       ELSE IF ~ro.virtual
       THEN NotRouted(ts1, ensure_capacity_for_role(emps, ro.owner, MinTaskSlots).employees)
       ELSE route_to_worker(ts1, i, oc, mode, registered, ro,
                            ensure_capacity_for_role(emps, ro.owner, MinTaskSlots))

\* lines 387-458: the owner label is resolved (ro) and capacity ensured for it
route_owner(ts, emps, i, oc, mode, registered, ro) ==
    LET ts1 == IF ro.renamed THEN [ts EXCEPT ![i].suggested_owner = ro.owner] ELSE ts
    IN IF ro.empty THEN NotRouted(ts, emps)
       ELSE IF ~ro.virtual THEN NotRouted(ts1, emps)
       ELSE route_to_worker(ts1, i, oc, mode, registered, ro,
                            ensure_capacity_for_role(emps, ro.owner, MinTaskSlots))

\* CompanyBrain._maybe_route_task_to_virtual_staff on task i.
\*   oc.exec: what BaseVirtualEmployee.run_task does (the LLM call returns or raises)
\*   oc.tool: what the task's tool does if ceo.run_task calls it
maybe_route_task_to_virtual_staff(ts, emps, i, oc, mode, registered) ==
    route_owner(ts, emps, i, oc, mode, registered, ResolvedOwner[ts[i].suggested_owner])

\* one entry of the list run_pending_tasks returns, with what happened to the task
Result(t, tier, status, agent, executor_raised, fallback, tool_raised, emps_before, emps_after, task_status) ==
    [task |-> t.id, owner |-> t.suggested_owner, area |-> t.area,
     tier |-> tier, status |-> status, agent |-> agent,
     executor_raised |-> executor_raised, fallback |-> fallback, tool_raised |-> tool_raised,
     workers_before |-> emps_before, workers_after |-> emps_after,
     task_status |-> task_status]

\* steps 3 and 4 of the loop: r3 is what the second call of
\* _maybe_route_task_to_virtual_staff returns; if None, ceo.run_task
tier_fallback(st, i, oc, mode, registered, r3) ==
    LET t == st.tasks[i]
        ceo == run_task(r3.tasks[i], mode, registered, oc.tool)
    IN IF r3.routed
       THEN [st EXCEPT !.tasks = r3.tasks, !.employees = r3.employees,
                       !.results = Append(@, Result(t, "pool_fallback", r3.status, None,
                            r3.executor_raised, r3.fallback, r3.tool_raised,
                            st.employees, r3.employees, r3.tasks[i].status))]
       ELSE [st EXCEPT !.tasks = [r3.tasks EXCEPT ![i].status = ceo.task_status],
                       !.employees = r3.employees,
                       !.results = Append(@, Result(t, "generic", ceo.status, None,
                            FALSE, FALSE, ceo.tool_raised,
                            st.employees, r3.employees, ceo.task_status))]

\* step 2 of the loop, _maybe_delegate_task_to_agent: the agent's call and the
\* recording of its answer (delegate_to_cro/coo/cto, memory.record_tool_call) return,
\* or raise out of the loop: nothing catches them. r1 is what step 1 left
tier_specialist(st, i, oc, mode, registered, r1) ==
    LET t == st.tasks[i]
        agent == AgentForArea[r1.tasks[i].area]
    IN IF agent = None
       THEN tier_fallback(st, i, oc, mode, registered,
                maybe_route_task_to_virtual_staff(r1.tasks, r1.employees, i, oc, mode, registered))
       ELSE IF oc.exec = "raise"
       THEN [st EXCEPT !.tasks = r1.tasks, !.employees = r1.employees,
                       !.raised = TRUE, !.failed = t.id]
       ELSE [st EXCEPT !.tasks = [r1.tasks EXCEPT ![i].status = "done"],
                       !.employees = r1.employees,
                       !.results = Append(@, Result(t, "specialist", "done", agent,
                            FALSE, FALSE, FALSE, st.employees, r1.employees, "done"))]

\* step 1 of the loop: r1 is what _maybe_route_task_to_virtual_staff returns for a
\* task with a worker assignment (not routed without one)
tier_pool(st, i, oc, mode, registered, r1) ==
    IF r1.routed
    THEN [st EXCEPT !.tasks = r1.tasks, !.employees = r1.employees,
                    !.results = Append(@, Result(st.tasks[i], "pool", r1.status, None,
                         r1.executor_raised, r1.fallback, r1.tool_raised,
                         st.employees, r1.employees, r1.tasks[i].status))]
    ELSE tier_specialist(st, i, oc, mode, registered, r1)

\* a variant of the loop body without step 1: the agents come first
process_task_agents_first(st, i, oc, mode, registered) ==
    IF st.tasks[i].status = "done" THEN st
    ELSE tier_pool(st, i, oc, mode, registered, NotRouted(st.tasks, st.employees))

\* the body of the loop of CompanyBrain.run_pending_tasks for task i
process_task(st, i, oc, mode, registered) ==
    IF st.tasks[i].status = "done" THEN st
    ELSE tier_pool(st, i, oc, mode, registered,
             IF HasAssignment[st.tasks[i].suggested_owner]
             THEN maybe_route_task_to_virtual_staff(st.tasks, st.employees, i, oc, mode, registered)
             ELSE NotRouted(st.tasks, st.employees))

\* the loop `for t in list(self.ceo.state.tasks)`: an exception ends it
RECURSIVE run_batch(_, _, _, _, _)
run_batch(st, i, ocs, mode, registered) ==
    IF i > Len(st.tasks) \/ st.raised THEN st
    ELSE run_batch(process_task(st, i, ocs[i], mode, registered), i + 1, ocs, mode, registered)

Outcome == [exec : {"ok", "raise"}, tool : {"ok", "not_ok", "raise"}]

\* an LLM call can be made for the task: an agent takes its area, or a role config
\* its owner label
calls_executor(t) ==
    AgentForArea[t.area] # None \/ ResolvedOwner[t.suggested_owner].role_id # None

\* the outcomes the calls of a task can have: nothing is called for a done task,
\* and a tool produces one of its ToolOutcomes
OutcomesOf(t, registered) ==
    {oc \in Outcome :
        /\ (t.status = "done" \/ ~calls_executor(t)) => oc.exec = "ok"
        /\ oc.tool \in (IF t.status # "done" /\ t.suggested_tool \in registered
                        THEN ToolOutcomes(t.suggested_tool) ELSE {"ok"})}

\* one outcome per task of the list
RECURSIVE BatchOutcomes(_, _)
BatchOutcomes(ts, registered) ==
    IF ts = <<>> THEN {<<>>}
    ELSE {<<oc>> \o rest : oc \in OutcomesOf(Head(ts), registered),
                           rest \in BatchOutcomes(Tail(ts), registered)}

\* ---------------------------------------------------------------------
\* KPIEngine (kpi_engine.py)
\* ---------------------------------------------------------------------
\* Optional[float]: <<>> is None, <<v>> is the value v
Unset == <<>>
Value(v) == <<v>>
IsSet(o) == o # <<>>

\* KPIThreshold(name=..., min_value=..., max_value=...)
KPIThreshold(min_value, max_value) == [min_value |-> min_value, max_value |-> max_value]

\* KPIEngine(), MemoryEngine without readings, KPITrendAnalyzer without history
\* a dict without keys
EmptyDict == [m \in {} |-> <<>>]

\* KPITrendAnalyzer() where no kpi_history.json exists: a defaultdict(list) without
\* keys; the clock, in days
NoTrend == [_kpi_history |-> EmptyDict, is_defaultdict |-> TRUE,
            file_exists |-> FALSE, file |-> EmptyDict, now |-> 0]

NoKpi == [thresholds |-> <<>>, memory |-> <<>>, events |-> <<>>, history |-> <<>>,
          trend |-> NoTrend]

\* no document on disk: _load_state gives [] and _load_meta gives {} to both processes
NoWriters ==
    [staff_file |-> <<>>, meta_file |-> <<>>,
     staff |-> <<(<<>>), (<<>>)>>, meta |-> <<(<<>>), (<<>>)>>]

\* run_continuous_scheduler before the first test of its loop: shutdown_event clear,
\* cycle_count = 0, no autonomy_cycles.json
\* no review_task call in flight; closes and before are history: the writes of
\* parent.status, and the tasks and reviews when the first call began
NoReviewers ==
    [pc |-> <<"idle", "idle">>, task_id |-> <<0, 0>>, parent_id |-> <<0, 0>>,
     closes |-> 0, before |-> <<>>]

\* running, failed, late and signal_pc are history: the cycles in flight, the cycles
\* that raised, the cycles begun with the event set, and where the loop stood when the
\* first signal was handled
NoScheduler ==
    [pc |-> "test", shutdown_event |-> FALSE, cycle_count |-> 0, waited |-> 0,
     total_cycles |-> 0, running |-> 0, failed |-> 0, late |-> 0, signal_pc |-> ""]

\* a variant of out_of_range that counts a value on a bound as beyond it
out_of_range_inclusive(threshold, value) ==
    (IF IsSet(threshold.min_value) /\ value <= threshold.min_value[1]
     THEN <<"below minimum">> ELSE <<>>)
    \o (IF IsSet(threshold.max_value) /\ value >= threshold.max_value[1]
        THEN <<"above maximum">> ELSE <<>>)

\* the messages of record_kpi: one for each bound the value is beyond
out_of_range(threshold, value) ==
    (IF IsSet(threshold.min_value) /\ value < threshold.min_value[1]
     THEN <<"below minimum">> ELSE <<>>)
    \o (IF IsSet(threshold.max_value) /\ value > threshold.max_value[1]
        THEN <<"above maximum">> ELSE <<>>)

\* the messages for a metric: none when self.thresholds.get(metric_name) is None
alert_messages(thresholds, metric_name, value) ==
    IF metric_name \in DOMAIN thresholds THEN out_of_range(thresholds[metric_name], value)
    ELSE <<>>

\* ---------------------------------------------------------------------
\* Actions
\* ---------------------------------------------------------------------
Init ==
    /\ tasks = <<>>
    /\ links = <<>>
    /\ reviews = <<>>
    /\ employees = <<>>
    /\ tools = {"log_tool"}
    /\ execution_mode = "auto"
    /\ brain_execution_mode = "auto"
    /\ kpi = NoKpi
    /\ writers = NoWriters
    /\ scheduler = NoScheduler
    /\ reviewers = NoReviewers
    /\ last = Call("init", NoId, FALSE, FALSE, <<>>)

\* plan_day / ingest_event: state.tasks.extend(new_tasks), one parsed task
plan_day(cap, area, suggested_owner, suggested_tool) ==
    /\ Len(tasks) < cap
    /\ tasks' = Append(tasks, CEOTask(NewTaskId(tasks), area, suggested_owner, suggested_tool))
    /\ last' = Call("plan_day", NoId, FALSE, FALSE, <<>>)
    /\ UNCHANGED <<links, reviews, employees, tools, execution_mode, brain_execution_mode, kpi, writers, scheduler, reviewers>>

\* a variant of create_subtask that does not look the parent up
create_subtask_without_lookup(cap, parent_task_id, area, suggested_owner) ==
    /\ Len(tasks) < cap
    /\ tasks' = Append(tasks, CEOTask(NewTaskId(tasks), "general", "CEO-Agent", None))
    /\ links' = [x \in (DOMAIN links) \cup {parent_task_id} |->
                    IF x = parent_task_id
                    THEN Append(get_children_ids(links, parent_task_id), NewTaskId(tasks))
                    ELSE links[x]]
    /\ last' = Call("create_subtask", parent_task_id, FALSE, FALSE, <<>>)
    /\ UNCHANGED <<reviews, employees, tools, execution_mode, brain_execution_mode, kpi, writers, scheduler, reviewers>>

\* TaskManager.create_subtask(parent_task_id, area=..., suggested_owner=...)
create_subtask(cap, parent_task_id, area, suggested_owner) ==
    LET pi == find_task(tasks, parent_task_id)
        sub == CEOTask(NewTaskId(tasks),
                       IF area # None THEN area ELSE tasks[pi].area,
                       IF suggested_owner # None THEN suggested_owner
                       ELSE tasks[pi].suggested_owner,
                       None)
    IN IF pi = NoId
       THEN \* raise ValueError
            /\ last' = Call("create_subtask", parent_task_id, FALSE, TRUE, <<>>)
            /\ UNCHANGED <<tasks, links, reviews, employees, tools, execution_mode, brain_execution_mode, kpi, writers, scheduler, reviewers>>
       ELSE /\ Len(tasks) < cap
            /\ tasks' = Append(tasks, sub)
            /\ links' = [x \in (DOMAIN links) \cup {parent_task_id} |->
                            IF x = parent_task_id
                            THEN Append(get_children_ids(links, parent_task_id), sub.id)
                            ELSE links[x]]
            /\ last' = Call("create_subtask", parent_task_id, FALSE, FALSE, <<>>)
            /\ UNCHANGED <<reviews, employees, tools, execution_mode, brain_execution_mode, kpi, writers, scheduler, reviewers>>

\* a variant of mark_task_done_by_delegate that propagates before the review is
\* set to awaiting
marked_done_before_review(ts, lk, rv, ti) ==
    LET done == [ts EXCEPT ![ti].status = "done"]
        parent_id == get_parent_id(lk, ts[ti].id)
    IN IF parent_id # NoId
       THEN maybe_auto_close_parent_chain(done, lk, rv, parent_id)
       ELSE done

\* the task list after TaskManager.mark_task_done_by_delegate on task index ti
marked_done(ts, lk, rv, ti) ==
    LET done == [ts EXCEPT ![ti].status = "done"]
        rv2 == set_review(rv, ts[ti].id, "awaiting")
        parent_id == get_parent_id(lk, ts[ti].id)
    IN IF parent_id # NoId
       THEN maybe_auto_close_parent_chain(done, lk, rv2, parent_id)
       ELSE done

mark_task_done_by_delegate(task_id) ==
    LET ti == find_task(tasks, task_id)
    IN IF ti = NoId
       THEN /\ last' = Call("mark_task_done_by_delegate", task_id, FALSE, FALSE, <<>>)
            /\ UNCHANGED <<tasks, links, reviews, employees, tools, execution_mode, brain_execution_mode, kpi, writers, scheduler, reviewers>>
       ELSE /\ reviews' = set_review(reviews, task_id, "awaiting")
            /\ tasks' = marked_done(tasks, links, reviews, ti)
            /\ last' = Call("mark_task_done_by_delegate", task_id, FALSE, FALSE, <<>>)
            /\ UNCHANGED <<links, employees, tools, execution_mode, brain_execution_mode, kpi, writers, scheduler, reviewers>>

\* a variant of review_task that records the review and does not propagate
reviewed_without_propagation(ts, lk, rv, ti, approved) == ts

\* a variant of review_task that closes the parent of an approved task at once
reviewed_closing_parent(ts, lk, rv, ti, approved) ==
    LET pi == find_task(ts, get_parent_id(lk, ts[ti].id))
    IN IF approved /\ pi # NoId THEN [ts EXCEPT ![pi].status = "done"] ELSE ts

\* the task list after TaskManager.review_task on task index ti
reviewed(ts, lk, rv, ti, approved) ==
    LET rv2 == set_review(rv, ts[ti].id, IF approved THEN "approved" ELSE "rejected")
        parent_id == get_parent_id(lk, ts[ti].id)
    IN IF approved /\ parent_id # NoId
       THEN maybe_auto_close_parent_chain(ts, lk, rv2, parent_id)
       ELSE ts

review_task(task_id, approved) ==
    LET ti == find_task(tasks, task_id)
    IN IF ti = NoId
       THEN /\ last' = Call("review_task", task_id, approved, FALSE, <<>>)
            /\ UNCHANGED <<tasks, links, reviews, employees, tools, execution_mode, brain_execution_mode, kpi, writers, scheduler, reviewers>>
       ELSE /\ reviews' = set_review(reviews, task_id, IF approved THEN "approved" ELSE "rejected")
            /\ tasks' = reviewed(tasks, links, reviews, ti, approved)
            /\ last' = [Call("review_task", task_id, approved, FALSE, <<>>) EXCEPT
                            !.again = last.op = "review_task" /\ last.id = task_id
                                      /\ last.approved = approved]
            /\ UNCHANGED <<links, employees, tools, execution_mode, brain_execution_mode, kpi, writers, scheduler, reviewers>>

\* dashboard api_run_single_task: ceo.run_task on the task with that id
api_run_single_task(task_id) ==
    LET ti == find_task(tasks, task_id)
    IN /\ ti # NoId
       /\ \E oc \in OutcomesOf([tasks[ti] EXCEPT !.status = "todo"], tools) :
            LET res == run_task(tasks[ti], execution_mode, tools, oc.tool)
            IN /\ oc.exec = "ok"
               /\ tasks' = [tasks EXCEPT ![ti].status = res.task_status]
               /\ last' = Call("run_task", task_id, FALSE, FALSE, <<res.status>>)
       /\ UNCHANGED <<links, reviews, employees, tools, execution_mode, brain_execution_mode, kpi, writers, scheduler, reviewers>>

\* CompanyBrain.run_pending_tasks: the whole batch
run_pending_tasks ==
    \E ocs \in BatchOutcomes(tasks, tools) :
        LET st == run_batch([tasks |-> tasks, employees |-> employees, results |-> <<>>,
                             raised |-> FALSE, failed |-> NoId],
                            1, ocs, execution_mode, tools)
        IN /\ Len(st.employees) <= MaxEmployees
           /\ \A k \in 1..Len(st.employees) : st.employees[k].tasks_assigned_today <= MaxAssigned
           /\ tasks' = st.tasks
           /\ employees' = st.employees
           /\ last' = [Call("run_pending_tasks", st.failed, FALSE, st.raised,
                            IF st.raised THEN <<>> ELSE st.results) EXCEPT
                            !.pending = Cardinality({i \in 1..Len(tasks) : tasks[i].status # "done"})]
           /\ UNCHANGED <<links, reviews, tools, execution_mode, brain_execution_mode, kpi, writers, scheduler, reviewers>>

\* AgenticCEO.register_tool(SlackTool())
register_tool(name) ==
    /\ name \notin tools
    /\ tools' = tools \cup {name}
    /\ last' = Call("register_tool", NoId, FALSE, FALSE, <<>>)
    /\ UNCHANGED <<tasks, links, reviews, employees, execution_mode, brain_execution_mode, kpi, writers, scheduler, reviewers>>

\* AgenticCEO.approve_task: the first task with that id is approved; returns found
approve_task(task_id) ==
    LET ti == find_task(tasks, task_id)
    IN /\ tasks' = IF ti = NoId THEN tasks ELSE [tasks EXCEPT ![ti].approved = TRUE]
       /\ last' = Call("approve_task", task_id, FALSE, FALSE, <<ti # NoId>>)
       /\ UNCHANGED <<links, reviews, employees, tools, execution_mode, brain_execution_mode, kpi, writers, scheduler, reviewers>>

\* a client appends a task to state.tasks: CEOTask(..., requires_approval=...)
add_task(cap, suggested_tool, requires_approval) ==
    /\ Len(tasks) < cap
    /\ tasks' = Append(tasks, [CEOTask(NewTaskId(tasks), "general", "CEO-Agent", suggested_tool)
                                 EXCEPT !.requires_approval = requires_approval])
    /\ last' = Call("add_task", NoId, FALSE, FALSE, <<>>)
    /\ UNCHANGED <<links, reviews, employees, tools, execution_mode, brain_execution_mode, kpi, writers, scheduler, reviewers>>

\* the dict run_task returns for task t, with what the call did
RunEntry(t, res) ==
    [task |-> t.id, status |-> res.status, tool_called |-> res.tool_called,
     tool_raised |-> res.tool_raised, task_status |-> res.task_status]

\* one task of the loop of AgenticCEO.run_pending_tasks, res what run_task returns
ceo_run_one(st, i, res) ==
    [tasks |-> [st.tasks EXCEPT ![i].status = res.task_status],
     results |-> Append(st.results, RunEntry(st.tasks[i], res))]

\* the loop of AgenticCEO.run_pending_tasks over state.tasks
RECURSIVE ceo_run_batch(_, _, _, _, _)
ceo_run_batch(st, i, ocs, mode, registered) ==
    IF i > Len(st.tasks) THEN st
    ELSE IF st.tasks[i].status \in {"todo", "in-progress", "blocked"}
    THEN ceo_run_batch(ceo_run_one(st, i, run_task(st.tasks[i], mode, registered, ocs[i].tool)),
                       i + 1, ocs, mode, registered)
    ELSE ceo_run_batch(st, i + 1, ocs, mode, registered)

\* AgenticCEO.run_pending_tasks
ceo_run_pending_tasks ==
    \E ocs \in BatchOutcomes(tasks, tools) :
        LET st == ceo_run_batch([tasks |-> tasks, results |-> <<>>], 1, ocs, execution_mode, tools)
        IN /\ \A k \in 1..Len(ocs) : ocs[k].exec = "ok"
           /\ tasks' = st.tasks
           /\ last' = Call("ceo_run_pending_tasks", NoId, FALSE, FALSE, st.results)
           /\ UNCHANGED <<links, reviews, employees, tools, execution_mode, brain_execution_mode, kpi, writers, scheduler, reviewers>>

\* AgenticCEO.run_task on the task of state.tasks with that id
ceo_run_task(task_id) ==
    LET ti == find_task(tasks, task_id)
    IN /\ ti # NoId
       /\ \E tool_outcome \in ToolOutcomes(tasks[ti].suggested_tool) :
            LET res == run_task(tasks[ti], execution_mode, tools, tool_outcome)
            IN /\ tasks' = [tasks EXCEPT ![ti].status = res.task_status]
               /\ last' = Call("ceo_run_task", task_id, FALSE, FALSE, <<RunEntry(tasks[ti], res)>>)
       /\ UNCHANGED <<links, reviews, employees, tools, execution_mode, brain_execution_mode, kpi, writers, scheduler, reviewers>>

\* the roles asked of the staff manager: one is a substring of the other
StaffRoles == {"Content Writer", "Virtual Content Writer"}

\* VirtualStaffManager.ensure_capacity_for_role(role, min_task_slots=...)
call_ensure_capacity_for_role(role, min_task_slots) ==
    LET cap == ensure_capacity_for_role(employees, role, min_task_slots)
    IN /\ Len(cap.employees) <= MaxEmployees
       /\ employees' = cap.employees
       /\ last' = Call("ensure_capacity_for_role", cap.employee, FALSE, FALSE,
                       <<[role |-> role, min_task_slots |-> min_task_slots,
                          created |-> cap.created, capacity_before |-> cap.capacity_before,
                          capacity_after |-> cap.capacity_after]>>)
       /\ UNCHANGED <<tasks, links, reviews, tools, execution_mode, brain_execution_mode, kpi, writers, scheduler, reviewers>>

\* VirtualStaffManager.create_virtual_employee(role, max_daily_tasks=...)
call_create_virtual_employee(role, max_daily_tasks) ==
    /\ Len(employees) < MaxEmployees
    /\ employees' = create_virtual_employee(employees, role, max_daily_tasks)
    /\ last' = Call("create_virtual_employee", Len(employees) + 1, FALSE, FALSE, <<>>)
    /\ UNCHANGED <<tasks, links, reviews, tools, execution_mode, brain_execution_mode, kpi, writers, scheduler, reviewers>>

\* VirtualStaffManager.assign_task_to_virtual_employee(employee_id, ...): returns the
\* worker, or None
call_assign_task_to_virtual_employee(employee_id) ==
    LET after == assign_task_to_virtual_employee(employees, employee_id)
    IN /\ \A k \in 1..Len(after) : after[k].tasks_assigned_today <= MaxAssigned
       /\ employees' = after
       /\ last' = Call("assign_task_to_virtual_employee", employee_id, FALSE, FALSE,
                       <<IF after = employees THEN NoId ELSE employee_id>>)
       /\ UNCHANGED <<tasks, links, reviews, tools, execution_mode, brain_execution_mode, kpi, writers, scheduler, reviewers>>

\* VirtualStaffManager.reset_daily_task_counters
reset_daily_task_counters ==
    /\ employees' = [k \in 1..Len(employees) |-> [employees[k] EXCEPT !.tasks_assigned_today = 0]]
    /\ last' = Call("reset_daily_task_counters", NoId, FALSE, FALSE, <<>>)
    /\ UNCHANGED <<tasks, links, reviews, tools, execution_mode, brain_execution_mode, kpi, writers, scheduler, reviewers>>

\* ---------------------------------------------------------------------
\* Specifications
\* ---------------------------------------------------------------------
\* the TaskManager operations on at most cap tasks
TaskManagerNext(cap) ==
    \/ \E a \in SpecAreas, o \in SpecOwners, tl \in SpecTools : plan_day(cap, a, o, tl)
    \/ \E p \in 1..cap : create_subtask(cap, p, None, None)
    \/ \E id \in 1..cap : mark_task_done_by_delegate(id)
    \/ \E id \in 1..cap, approved \in BOOLEAN : review_task(id, approved)

\* the reviews: the TaskManager operations on planned tasks
NextReview == TaskManagerNext(MaxTasks)

SpecReview == Init /\ [][NextReview]_vars

\* the reviews and the Router: chains of three tasks, run by run_pending_tasks too
NextChain == TaskManagerNext(MaxTasks) \/ run_pending_tasks

SpecChain == Init /\ [][NextChain]_vars

\* the task lifecycle: the TaskManager operations and the execution of tasks
Next ==
    \/ TaskManagerNext(MaxRunTasks)
    \/ \E id \in 1..MaxRunTasks : api_run_single_task(id)
    \/ run_pending_tasks

Spec == Init /\ [][Next]_vars

\* the routing of planned tasks by run_pending_tasks
NextRoute ==
    \/ \E a \in RouteAreas, o \in RouteOwners, tl \in ParserTools :
          plan_day(MaxRouteTasks, a, o, tl)
    \/ run_pending_tasks
    \/ register_tool("slack_tool")

SpecRoute == Init /\ [][NextRoute]_vars

\* the engine with the Slack tool: every operation on planned tasks and subtasks
NextRun ==
    \/ \E a \in SpecAreas, o \in SpecOwners, tl \in ParserTools : plan_day(MaxRunTasks, a, o, tl)
    \/ \E p \in 1..MaxRunTasks : create_subtask(MaxRunTasks, p, None, None)
    \/ \E id \in 1..MaxRunTasks : mark_task_done_by_delegate(id)
    \/ \E id \in 1..MaxRunTasks, approved \in BOOLEAN : review_task(id, approved)
    \/ \E id \in 1..MaxRunTasks : approve_task(id)
    \/ \E id \in 1..MaxRunTasks : api_run_single_task(id)
    \/ run_pending_tasks
    \/ register_tool("slack_tool")

SpecRun == Init /\ [][NextRun]_vars

\* AgenticCEO(..., execution_mode="approval")
InitApproval ==
    /\ tasks = <<>>
    /\ links = <<>>
    /\ reviews = <<>>
    /\ employees = <<>>
    /\ tools = {"log_tool"}
    /\ execution_mode = "approval"
    /\ brain_execution_mode = "approval"
    /\ kpi = NoKpi
    /\ writers = NoWriters
    /\ scheduler = NoScheduler
    /\ reviewers = NoReviewers
    /\ last = Call("init", NoId, FALSE, FALSE, <<>>)

\* an AgenticCEO in approval mode: tasks are added, approved and run
NextApproval ==
    \/ \E tl \in ParserTools \cup {None}, ra \in BOOLEAN : add_task(MaxRunTasks, tl, ra)
    \/ \E id \in 1..MaxRunTasks : approve_task(id)
    \/ \E id \in 1..MaxRunTasks : ceo_run_task(id)
    \/ ceo_run_pending_tasks
    \/ register_tool("slack_tool")

SpecApproval == InitApproval /\ [][NextApproval]_vars

\* VirtualStaffManager.__init__: _load_state reads the roster of the state file, which
\* is empty or holds a worker that is not active
InitStaff ==
    /\ tasks = <<>>
    /\ links = <<>>
    /\ reviews = <<>>
    /\ employees \in {<<>>, <<[VirtualEmployee(1, "Content Writer", MaxSlots) EXCEPT !.active = FALSE]>>}
    /\ tools = {"log_tool"}
    /\ execution_mode = "auto"
    /\ brain_execution_mode = "auto"
    /\ kpi = NoKpi
    /\ writers = NoWriters
    /\ scheduler = NoScheduler
    /\ reviewers = NoReviewers
    /\ last = Call("init", NoId, FALSE, FALSE, <<>>)

\* the capacity ledger: the public operations of the VirtualStaffManager
NextStaff ==
    \/ \E role \in StaffRoles, n \in 0..MaxSlots : call_ensure_capacity_for_role(role, n)
    \/ \E role \in StaffRoles : call_create_virtual_employee(role, MaxSlots)
    \/ \E id \in 1..(MaxEmployees + 1) : call_assign_task_to_virtual_employee(id)
    \/ reset_daily_task_counters

SpecStaff == InitStaff /\ [][NextStaff]_vars

\* CompanyBrain.from_config(execution_mode=mode): cls(...) builds the AgenticCEO
\* without an execution_mode (its default, "auto"), then brain.execution_mode = mode
InitConfig ==
    /\ tasks = <<>>
    /\ links = <<>>
    /\ reviews = <<>>
    /\ employees = <<>>
    /\ tools = {"log_tool"}
    /\ execution_mode = "auto"
    /\ brain_execution_mode \in {"auto", "approval", "dry_run"}
    /\ kpi = NoKpi
    /\ writers = NoWriters
    /\ scheduler = NoScheduler
    /\ reviewers = NoReviewers
    /\ last = Call("from_config", NoId, FALSE, FALSE, <<>>)

\* a CompanyBrain built by from_config: tasks are planned, added, approved and run
NextConfig ==
    \/ \E a \in RouteAreas, o \in {"CEO-Agent", "content_writer"}, tl \in ParserTools :
          plan_day(MaxRunTasks, a, o, tl)
    \/ \E tl \in ParserTools, ra \in BOOLEAN : add_task(MaxRunTasks, tl, ra)
    \/ \E id \in 1..MaxRunTasks : approve_task(id)
    \/ run_pending_tasks

SpecConfig == InitConfig /\ [][NextConfig]_vars

\* ---------------------------------------------------------------------
\* Properties of the review state machine
\* ---------------------------------------------------------------------
\* the children list of parent_id is non-empty and every id in it is a task that is
\* done and approved
ChildrenReady(ts, lk, rv, parent_id) ==
    /\ get_children_ids(lk, parent_id) # <<>>
    /\ \A c \in Range(get_children_ids(lk, parent_id)) :
          /\ find_task(ts, c) # NoId
          /\ ts[find_task(ts, c)].status = "done"
          /\ get_review_status(rv, c) = "approved"

\* the call recorded in `last` was made on an existing task that has a parent
OnChild(call, ts, lk) ==
    /\ find_task(ts, call.id) # NoId
    /\ get_parent_id(lk, call.id) # NoId

ParentIndex(call, ts, lk) == find_task(ts, get_parent_id(lk, call.id))

\* C1: a step's propagation sets a task to done only if its children list is
\* non-empty and every child is present, done and approved; and when the parent of
\* the task the call was made on has a child that is not done or not approved, the
\* step changes no status (apart from the task mark_task_done_by_delegate is called on).
C1_Step ==
    /\ \A i \in 1..Len(tasks) :
          (/\ tasks'[i].status # tasks[i].status
           /\ ~(last'.op = "mark_task_done_by_delegate" /\ last'.id = tasks[i].id))
          => /\ tasks'[i].status = "done"
             /\ ChildrenReady(tasks', links', reviews', tasks[i].id)
    /\ (/\ last'.op \in {"review_task", "mark_task_done_by_delegate"}
        /\ OnChild(last', tasks, links)
        /\ ~ChildrenReady(tasks', links', reviews', get_parent_id(links, last'.id)))
       => \A i \in 1..Len(tasks) :
             tasks[i].id # last'.id => tasks'[i].status = tasks[i].status

C1_AutoCloseOnlyWhenAllApproved == [][C1_Step]_vars

\* a parent that only the propagation can have closed (it was never marked done or
\* reviewed itself), after the approval of one of its two children
C1_Witness ==
    /\ last.op = "review_task" /\ last.approved
    /\ OnChild(last, tasks, links)
    /\ Len(get_children_ids(links, get_parent_id(links, last.id))) = 2
    /\ tasks[ParentIndex(last, tasks, links)].status = "done"
    /\ get_review_status(reviews, get_parent_id(links, last.id)) = "none"

\* C3: for a parent P whose children are all done, a review_task call on a child
\* does not change P's status while some child is awaiting or rejected after it, and
\* the approving call after which every child is approved leaves P done.
C3_Step ==
    (/\ last'.op = "review_task"
     /\ OnChild(last', tasks, links)
     /\ \A c \in Range(get_children_ids(links, get_parent_id(links, last'.id))) :
           find_task(tasks, c) # NoId /\ tasks[find_task(tasks, c)].status = "done")
    => LET p == get_parent_id(links, last'.id)
           pi == find_task(tasks, p)
           cids == Range(get_children_ids(links, p))
       IN /\ (\E c \in cids : get_review_status(reviews', c) \in {"awaiting", "rejected"})
             => tasks'[pi].status = tasks[pi].status
          /\ (last'.approved /\ \A c \in cids : get_review_status(reviews', c) = "approved")
             => tasks'[pi].status = "done"

C3_ClosedAtLastApproval == [][C3_Step]_vars

\* the approval that makes both children of a parent approved, and the parent is done
C3_Witness ==
    /\ last.op = "review_task" /\ last.approved /\ ~last.again
    /\ OnChild(last, tasks, links)
    /\ Len(get_children_ids(links, get_parent_id(links, last.id))) = 2
    /\ ChildrenReady(tasks, links, reviews, get_parent_id(links, last.id))
    /\ tasks[ParentIndex(last, tasks, links)].status = "done"

\* C4: a review_task(approve) call that repeats the call before it, on a child of a
\* parent that is done, does not raise and changes no status and no review.
C4_Step ==
    (/\ last'.op = "review_task" /\ last'.approved /\ last'.again
     /\ OnChild(last', tasks, links)
     /\ tasks[ParentIndex(last', tasks, links)].status = "done")
    => /\ ~last'.raised
       /\ tasks' = tasks
       /\ reviews' = reviews
       /\ tasks'[ParentIndex(last', tasks, links)].status = "done"

C4_SecondApprovalChangesNothing == [][C4_Step]_vars

\* the approval of the last child of an auto-closed parent has been repeated
C4_Witness ==
    /\ last.op = "review_task" /\ last.approved /\ last.again
    /\ OnChild(last, tasks, links)
    /\ ChildrenReady(tasks, links, reviews, get_parent_id(links, last.id))
    /\ tasks[ParentIndex(last, tasks, links)].status = "done"
    /\ get_review_status(reviews, get_parent_id(links, last.id)) = "none"

\* C5: mark_task_done_by_delegate on an existing task sets its status to done and
\* its review to awaiting, and changes the status of no other task.
C5_Step ==
    (last'.op = "mark_task_done_by_delegate" /\ find_task(tasks, last'.id) # NoId)
    => /\ tasks'[find_task(tasks, last'.id)].status = "done"
       /\ get_review_status(reviews', last'.id) = "awaiting"
       /\ Len(tasks') = Len(tasks)
       /\ \A i \in 1..Len(tasks) :
             tasks[i].id # last'.id => tasks'[i].status = tasks[i].status

C5_MarkDoneTouchesOneTask == [][C5_Step]_vars

\* a child is marked done while its sibling is done and approved: the parent stays open
C5_Witness ==
    /\ last.op = "mark_task_done_by_delegate"
    /\ OnChild(last, tasks, links)
    /\ \E c \in Range(get_children_ids(links, get_parent_id(links, last.id))) :
          /\ c # last.id
          /\ tasks[find_task(tasks, c)].status = "done"
          /\ get_review_status(reviews, c) = "approved"
    /\ tasks[ParentIndex(last, tasks, links)].status = "todo"

RECURSIVE ChainClosed(_, _, _, _)
ChainClosed(ts, lk, rv, parent_id) ==
    \/ parent_id = NoId
    \/ find_task(ts, parent_id) = NoId
    \/ ~ChildrenReady(ts, lk, rv, parent_id)
    \/ /\ ts[find_task(ts, parent_id)].status = "done"
       /\ ChainClosed(ts, lk, rv, get_parent_id(lk, parent_id))

LastResults == IF last.op = "run_pending_tasks" THEN Range(last.results) ELSE {}

\* the call run_pending_tasks has raised: no list is returned
BatchRaised == last.op = "run_pending_tasks" /\ last.raised

\* C6, as claimed: when the executor call of a task raises, a result is returned for
\* the task with status error, the task is blocked, and it was not executed again
\* through another path.
C6_ExecutorFailureBlocks ==
    /\ BatchRaised => tasks[find_task(tasks, last.id)].status = "blocked"
    /\ \A r \in LastResults :
          r.executor_raised => r.status = "error" /\ r.task_status = "blocked" /\ ~r.fallback

\* C7, as claimed: run_pending_tasks does not raise, and returns one entry per task
\* that was not done.
C7_BatchIsolation ==
    last.op = "run_pending_tasks" => ~last.raised /\ Len(last.results) = last.pending

\* C8, as claimed: a task whose owner label normalizes to a pool role (steps a-d)
\* is routed to the pool, and no agent is called for it.
C8_NormalizedOwnersGoToPool ==
    /\ BatchRaised => normalize_role_to_role_id(tasks[find_task(tasks, last.id)].suggested_owner) = None
    /\ \A r \in LastResults :
          normalize_role_to_role_id(r.owner) # None
          => r.tier \in {"pool", "pool_fallback"} /\ r.agent = None

\* the label names a worker: it contains "virtual", or it is a role id, or it is one
\* once lower-cased with its blanks and hyphens turned into underscores
NamesWorker(label) ==
    \/ Contains(Lower(label), "virtual")
    \/ Strip(label) \in RoleIds
    \/ underscored(Lower(Strip(label))) \in RoleIds

\* C8, amended: a task whose owner label names a worker is routed to the pool in
\* step 1, whatever its area, and no agent is called for it.
C8_WorkerLabelsGoToPool ==
    /\ BatchRaised => ~NamesWorker(tasks[find_task(tasks, last.id)].suggested_owner)
    /\ \A r \in LastResults : NamesWorker(r.owner) => r.tier = "pool" /\ r.agent = None

\* a task of an area that has an agent went to the pool: its label names a worker
C8_Witness ==
    \E r \in LastResults :
        /\ NamesWorker(r.owner) /\ ~Contains(Lower(r.owner), "virtual")
        /\ agent_for_area(r.area) # None
        /\ r.tier = "pool"
        /\ Len(r.workers_after) = Len(r.workers_before) + 1

\* the label matches no role by steps (b)-(d) and no entry of the alias table, and
\* the area no agent
NoMatch(r) ==
    /\ normalize_role_to_role_id(r.owner) = None
    /\ alias_of(Lower(Strip(r.owner))) = None
    /\ agent_for_area(r.area) = None

\* C9, as claimed: a task without any match is handled by ceo.run_task, and the
\* roster is the same after it as before.
C9_NoMatchIsGeneric ==
    \A r \in LastResults :
        NoMatch(r) => r.tier = "generic" /\ r.workers_after = r.workers_before

\* C9, amended: a task without any match whose label does not contain "virtual" is
\* handled by ceo.run_task, and the roster is the same after it as before.
C9_NoMatchNotVirtualIsGeneric ==
    \A r \in LastResults :
        (NoMatch(r) /\ ~Contains(Lower(r.owner), "virtual"))
        => r.tier = "generic" /\ r.workers_after = r.workers_before

\* a task without any match was run by ceo.run_task
C9_Witness ==
    \E r \in LastResults :
        /\ NoMatch(r) /\ ~Contains(Lower(r.owner), "virtual")
        /\ r.tier = "generic"
        /\ r.workers_after = <<>>

\* C10, as claimed: a task handled by ceo.run_task in step 4 is done, no agent was
\* called for it, and the roster is the same after it as before.
C10_GenericIsDone ==
    \A r \in LastResults :
        r.tier = "generic"
        => r.task_status = "done" /\ r.agent = None /\ r.workers_after = r.workers_before

\* C10, amended: a task handled by ceo.run_task in step 4 is done, or blocked with
\* an error result when its registered tool fails; no agent was called for it, and
\* the roster is the same after it as before.
C10_GenericIsDoneOrToolFailed ==
    \A r \in LastResults :
        r.tier = "generic"
        => /\ \/ r.status = "done" /\ r.task_status = "done"
              \/ /\ r.status = "error" /\ r.task_status = "blocked"
                 /\ tasks[find_task(tasks, r.task)].suggested_tool \in tools
           /\ r.agent = None
           /\ r.workers_after = r.workers_before

\* a task handled in step 4 is done after its registered tool was called
C10_Witness ==
    \E r \in LastResults :
        /\ r.tier = "generic" /\ r.task_status = "done"
        /\ tasks[find_task(tasks, r.task)].suggested_tool = "slack_tool"
        /\ "slack_tool" \in tools

\* ---------------------------------------------------------------------
\* Properties of done tasks
\* ---------------------------------------------------------------------
\* C11, as claimed: a step never changes the status of a task that is done, and
\* never removes a task from the list.
C11_Step ==
    /\ Len(tasks') >= Len(tasks)
    /\ \A i \in 1..Len(tasks) :
          /\ tasks'[i].id = tasks[i].id
          /\ tasks[i].status = "done" => tasks'[i].status = "done"

C11_DoneIsTerminal == [][C11_Step]_vars

\* ---------------------------------------------------------------------
\* Properties of the execution modes
\* ---------------------------------------------------------------------
\* the task requires approval and approve_task has not been called for it
Gated(t) == t.requires_approval /\ ~t.approved

\* C12: in approval mode, a task that requires approval and is not approved is never
\* done; a run_task or run_pending_tasks call on it calls no tool, returns blocked
\* and leaves it blocked; and the run_pending_tasks call after its approval executes
\* it (its registered tool is called, the result is done or error).
C12_Step ==
    /\ \A i \in 1..Len(tasks') : Gated(tasks'[i]) => tasks'[i].status # "done"
    /\ last'.op \in {"ceo_run_task", "ceo_run_pending_tasks"}
       => \A r \in Range(last'.results) :
             Gated(tasks[find_task(tasks, r.task)])
             => /\ r.status = "blocked" /\ ~r.tool_called
                /\ tasks'[find_task(tasks, r.task)].status = "blocked"
    /\ last'.op = "ceo_run_pending_tasks"
       => \A i \in 1..Len(tasks) :
             (tasks[i].status # "done" /\ ~Gated(tasks[i]))
             => \E k \in 1..Len(last'.results) :
                   /\ last'.results[k].task = tasks[i].id
                   /\ last'.results[k].status \in {"done", "error"}
                   /\ last'.results[k].tool_called <=> tasks[i].suggested_tool \in tools

C12_ApprovalGatesExecution == [][C12_Step]_vars

\* one batch has executed an approved task with its tool and left another, not
\* approved, blocked
C12_Witness ==
    /\ last.op = "ceo_run_pending_tasks"
    /\ \E r, q \in Range(last.results) :
          /\ tasks[find_task(tasks, r.task)].requires_approval
          /\ tasks[find_task(tasks, r.task)].approved
          /\ r.tool_called /\ r.task_status = "done"
          /\ Gated(tasks[find_task(tasks, q.task)])
          /\ q.status = "blocked" /\ tasks[find_task(tasks, q.task)].status = "blocked"

\* C13, as claimed: with the mode dry_run given to from_config, run_pending_tasks
\* changes no status, returns only skipped results and leaves the roster as it was;
\* with the mode approval, it leaves a task that requires approval and is not
\* approved not done.
C13_Step ==
    last'.op = "run_pending_tasks"
    => /\ brain_execution_mode = "dry_run"
          => /\ tasks' = tasks /\ employees' = employees /\ ~last'.raised
             /\ \A r \in Range(last'.results) : r.status = "skipped"
       /\ brain_execution_mode = "approval"
          => \A i \in 1..Len(tasks) :
                (Gated(tasks[i]) /\ tasks[i].status # "done") => tasks'[i].status # "done"

C13_ConfiguredModeGovernsBatch == [][C13_Step]_vars

\* ---------------------------------------------------------------------
\* Properties of the capacity ledger
\* ---------------------------------------------------------------------
\* worker id is an active worker of the roster whose role or title contains the role
ActiveWorkerOfRole(emps, id, role) ==
    \E k \in 1..Len(emps) :
        /\ emps[k].id = id /\ emps[k].active
        /\ \E label \in {emps[k].role, emps[k].title} : role \in RoleMatches[label]

\* the provisioning part of C14: a worker is created iff capacity_before is below
\* min_task_slots; the one worker added is active, of that role, with quota
\* min_task_slots and counter 0, and it is the one returned
Provisions(emps, emps2, call) ==
    LET r == call.results[1]
    IN /\ r.created <=> r.capacity_before.remaining_task_slots < r.min_task_slots
       /\ r.created
          => /\ Len(emps2) = Len(emps) + 1
             /\ SubSeq(emps2, 1, Len(emps)) = emps
             /\ emps2[Len(emps2)].id = call.id
             /\ \A k \in 1..Len(emps) : emps[k].id # call.id
             /\ emps2[Len(emps2)].active
             /\ emps2[Len(emps2)].role = r.role
             /\ emps2[Len(emps2)].max_daily_tasks = r.min_task_slots
             /\ emps2[Len(emps2)].tasks_assigned_today = 0
       /\ ~r.created => emps2 = emps

\* C14, as claimed: ensure_capacity_for_role provisions iff capacity_before is below
\* min_task_slots, and otherwise returns an existing active worker of the role.
C14_ClaimedStep ==
    last'.op = "ensure_capacity_for_role"
    => /\ Provisions(employees, employees', last')
       /\ ~last'.results[1].created
          => ActiveWorkerOfRole(employees, last'.id, last'.results[1].role)

C14_Step ==
    last'.op = "ensure_capacity_for_role"
    => /\ Provisions(employees, employees', last')
       /\ ~last'.results[1].created
          => \/ ActiveWorkerOfRole(employees, last'.id, last'.results[1].role)
             \/ /\ last'.id = NoId
                /\ last'.results[1].min_task_slots <= 0
                /\ \A k \in 1..Len(employees) :
                      ~ActiveWorkerOfRole(employees, employees[k].id, last'.results[1].role)

ActiveOfRole(emps, role) ==
    {k \in 1..Len(emps) : ActiveWorkerOfRole(emps, emps[k].id, role)}

\* the active workers of the role before the ensure_capacity_for_role call recorded
\* in call: those of the roster after it, without the worker it created
WorkersBefore(emps, call) ==
    {k \in ActiveOfRole(emps, call.results[1].role) :
        ~(call.results[1].created /\ emps[k].id = call.id)}

\* the sum of f[k] over the indices k of set
RECURSIVE SumOver(_, _)
SumOver(f, set) ==
    IF set = {} THEN 0
    ELSE LET k == CHOOSE k \in set : TRUE IN f[k] + SumOver(f, set \ {k})

C16_Step ==
    /\ Len(employees') >= Len(employees)
    /\ \A k \in 1..Len(employees) :
          /\ employees'[k].id = employees[k].id
          /\ employees'[k].max_daily_tasks >= employees[k].max_daily_tasks
          /\ employees'[k].tasks_assigned_today # employees[k].tasks_assigned_today
             => \/ /\ last'.op = "assign_task_to_virtual_employee"
                   /\ last'.id = employees[k].id /\ employees[k].active
                   /\ employees'[k].tasks_assigned_today = employees[k].tasks_assigned_today + 1
                \/ /\ last'.op = "reset_daily_task_counters"
                   /\ employees'[k].tasks_assigned_today = 0
    /\ last'.op = "reset_daily_task_counters"
       => \A k \in 1..Len(employees') : employees'[k].tasks_assigned_today = 0
    /\ last'.op = "assign_task_to_virtual_employee"
       => IF \E k \in 1..Len(employees) : employees[k].id = last'.id /\ employees[k].active
          THEN /\ last'.results = <<last'.id>>
               /\ \E k \in 1..Len(employees) :
                     /\ employees[k].id = last'.id
                     /\ employees' = [employees EXCEPT ![k].tasks_assigned_today = @ + 1]
          ELSE last'.results = <<NoId>> /\ employees' = employees

C16_CountersChangeByAssignOrReset == [][C16_Step]_vars

\* assign_task_to_virtual_employee was called on a worker that is not active and
\* returned None, beside an active worker with a used slot
C16_Witness ==
    /\ last.op = "assign_task_to_virtual_employee"
    /\ last.results = <<NoId>>
    /\ \E k \in 1..Len(employees) : employees[k].id = last.id /\ ~employees[k].active
    /\ \E k \in 1..Len(employees) : employees[k].active /\ employees[k].tasks_assigned_today = 1

\* ---------------------------------------------------------------------
\* The task parser (agentic_ceo.py, AgenticCEO._parse_tasks), on ASCII texts
\* ---------------------------------------------------------------------
UpperChar(c) ==
    CASE c = "a" -> "A" [] c = "b" -> "B" [] c = "c" -> "C" [] c = "d" -> "D"
      [] c = "e" -> "E" [] c = "f" -> "F" [] c = "g" -> "G" [] c = "h" -> "H"
      [] c = "i" -> "I" [] c = "j" -> "J" [] c = "k" -> "K" [] c = "l" -> "L"
      [] c = "m" -> "M" [] c = "n" -> "N" [] c = "o" -> "O" [] c = "p" -> "P"
      [] c = "q" -> "Q" [] c = "r" -> "R" [] c = "s" -> "S" [] c = "t" -> "T"
      [] c = "u" -> "U" [] c = "v" -> "V" [] c = "w" -> "W" [] c = "x" -> "X"
      [] c = "y" -> "Y" [] c = "z" -> "Z" [] OTHER -> c

RECURSIVE Upper(_)
Upper(s) == IF s = "" THEN "" ELSE UpperChar(CharAt(s, 1)) \o Upper(SubSeq(s, 2, Len(s)))

EndsWith(s, p) == Len(p) <= Len(s) /\ SubSeq(s, Len(s) - Len(p) + 1, Len(s)) = p

Digits == {"0", "1", "2", "3", "4", "5", "6", "7", "8", "9"}

\* str.isdigit() of one ASCII character
IsDigit(c) == c \in Digits

DigitValue(c) ==
    CASE c = "0" -> 0 [] c = "1" -> 1 [] c = "2" -> 2 [] c = "3" -> 3 [] c = "4" -> 4
      [] c = "5" -> 5 [] c = "6" -> 6 [] c = "7" -> 7 [] c = "8" -> 8 [] c = "9" -> 9

\* str.find(c) and str.rfind(c) as 1-based positions, 0 for -1
Find(s, c) ==
    IF \E i \in 1..Len(s) : CharAt(s, i) = c
    THEN CHOOSE i \in 1..Len(s) : CharAt(s, i) = c /\ \A j \in 1..(i - 1) : CharAt(s, j) # c
    ELSE 0

RFind(s, c) ==
    IF \E i \in 1..Len(s) : CharAt(s, i) = c
    THEN CHOOSE i \in 1..Len(s) : CharAt(s, i) = c /\ \A j \in (i + 1)..Len(s) : CharAt(s, j) # c
    ELSE 0

\* str.split(","): the fields between commas, empty fields kept
RECURSIVE SplitCommaFrom(_, _)
SplitCommaFrom(s, field) ==
    IF s = "" THEN <<field>>
    ELSE IF CharAt(s, 1) = ","
         THEN <<field>> \o SplitCommaFrom(SubSeq(s, 2, Len(s)), "")
         ELSE SplitCommaFrom(SubSeq(s, 2, Len(s)), field \o CharAt(s, 1))

SplitComma(s) == SplitCommaFrom(s, "")

\* str.splitlines() of a text whose only line break is "\n"
RECURSIVE SplitLinesFrom(_, _)
SplitLinesFrom(s, nl) ==
    IF s = "" THEN <<>>
    ELSE IF nl = 0 THEN <<s>>
    ELSE <<SubSeq(s, 1, nl - 1)>>
         \o SplitLinesFrom(SubSeq(s, nl + 1, Len(s)), Find(SubSeq(s, nl + 1, Len(s)), "\n"))

splitlines(text) == SplitLinesFrom(text, Find(text, "\n"))

\* the value of a run of decimal digits with "_" separators removed
RECURSIVE DecimalValue(_, _)
DecimalValue(s, acc) ==
    IF s = "" THEN acc
    ELSE IF CharAt(s, 1) = "_" THEN DecimalValue(SubSeq(s, 2, Len(s)), acc)
    ELSE DecimalValue(SubSeq(s, 2, Len(s)), 10 * acc + DigitValue(CharAt(s, 1)))

\* the digit part of an int literal: digits, single "_" only between digits
IsDecimal(s) ==
    /\ s # ""
    /\ IsDigit(CharAt(s, 1)) /\ IsDigit(CharAt(s, Len(s)))
    /\ \A i \in 1..Len(s) : IsDigit(CharAt(s, i)) \/ CharAt(s, i) = "_"
    /\ \A i \in 1..(Len(s) - 1) : ~(CharAt(s, i) = "_" /\ CharAt(s, i + 1) = "_")

\* int(s): blanks around, an optional sign, decimal digits; ok = FALSE is ValueError
py_int(s) ==
    LET t == Strip(s)
        signed == t # "" /\ CharAt(t, 1) \in {"+", "-"}
        body == IF signed THEN SubSeq(t, 2, Len(t)) ELSE t
    IN IF IsDecimal(body)
       THEN [ok |-> TRUE,
             value |-> IF signed /\ CharAt(t, 1) = "-" THEN 0 - DecimalValue(body, 0)
                       ELSE DecimalValue(body, 0)]
       ELSE [ok |-> FALSE, value |-> 0]

\* the priority read from the third field of the metadata
parse_priority(field) ==
    LET pr == Upper(field)
    IN IF StartsWith(pr, "P")
       THEN (IF py_int(SubSeq(pr, 2, Len(pr))).ok THEN py_int(SubSeq(pr, 2, Len(pr))).value
             ELSE 3)
       ELSE 3

\* the three assignments from meta_parts, the same in both metadata cases
parse_meta(meta_block, content) ==
    LET raw == SplitComma(meta_block)
        meta_parts == [k \in 1..Len(raw) |-> Strip(raw[k])]
    IN [content |-> content,
        area |-> IF Len(meta_parts) >= 1 /\ meta_parts[1] # "" THEN Lower(meta_parts[1])
                 ELSE "general",
        suggested_owner |-> IF Len(meta_parts) >= 2 /\ meta_parts[2] # "" THEN meta_parts[2]
                            ELSE "CEO-Agent",
        priority |-> IF Len(meta_parts) >= 3 /\ meta_parts[3] # ""
                     THEN parse_priority(meta_parts[3]) ELSE 3]

no_meta(content) ==
    [content |-> content, area |-> "general", suggested_owner |-> "CEO-Agent", priority |-> 3]

\* a variant of split_meta that reads the metadata at the start only
split_meta_prefix_only(content) ==
    IF StartsWith(content, "[") /\ Find(content, "]") # 0
    THEN parse_meta(SubSeq(content, 2, Find(content, "]") - 1),
                    Strip(SubSeq(content, Find(content, "]") + 1, Len(content))))
    ELSE no_meta(content)

\* the optional [area, OWNER, P1] metadata, at the start or at the end of the content
split_meta(content) ==
    IF StartsWith(content, "[")
    THEN (IF Find(content, "]") # 0
          THEN parse_meta(SubSeq(content, 2, Find(content, "]") - 1),
                          Strip(SubSeq(content, Find(content, "]") + 1, Len(content))))
          ELSE no_meta(content))
    ELSE IF EndsWith(content, "]") /\ Contains(content, "[")
         THEN (IF RFind(content, "[") # 0 /\ RFind(content, "[") - 1 < Len(content) - 1
               THEN parse_meta(SubSeq(content, RFind(content, "[") + 1, Len(content) - 1),
                               Strip(SubSeq(content, 1, RFind(content, "[") - 1)))
               ELSE no_meta(content))
         ELSE no_meta(content)

\* the character U+2013 (en dash); the texts of the model write it "~", which no
\* text uses otherwise
EnDash == "~"

\* content.split(sep, 1) for a separator of three characters that content holds
split_once(content, sep) ==
    LET at == CHOOSE i \in 1..(Len(content) - 2) :
                 /\ SubSeq(content, i, i + 2) = sep
                 /\ \A j \in 1..(i - 1) : SubSeq(content, j, j + 2) # sep
    IN [title |-> Strip(SubSeq(content, 1, at - 1)),
        description |-> Strip(SubSeq(content, at + 3, Len(content)))]

\* a variant of split_title that looks for " - " first
split_title_hyphen_first(content) ==
    IF Contains(content, " - ") THEN split_once(content, " - ")
    ELSE IF Contains(content, " " \o EnDash \o " ") THEN split_once(content, " " \o EnDash \o " ")
    ELSE [title |-> Strip(content), description |-> Strip(content)]

\* the title and the description: the en dash first, then " - ", then no separator
split_title(content) ==
    IF Contains(content, " " \o EnDash \o " ") THEN split_once(content, " " \o EnDash \o " ")
    ELSE IF Contains(content, " - ") THEN split_once(content, " - ")
    ELSE [title |-> Strip(content), description |-> Strip(content)]

\* the tool suggested for a title
tool_for_title(title) ==
    IF Contains(Lower(title), "message the team") \/ Contains(Lower(title), "notify the team")
    THEN "slack_tool" ELSE "log_tool"

\* CEOTask(title=..., priority=priority, ...): the field is declared ge=1, le=5,
\* and the model raises a ValidationError for any other value
parse_item(meta, td) ==
    [raised |-> meta.priority < 1 \/ meta.priority > 5,
     task |-> [title |-> td.title, description |-> td.description, area |-> meta.area,
               suggested_owner |-> meta.suggested_owner, priority |-> meta.priority,
               suggested_tool |-> tool_for_title(td.title)]]

\* is the stripped line a heading, a numbered item, or neither
is_heading(stripped) == StartsWith(Upper(stripped), "TASKS")

is_numbered(stripped) ==
    Len(stripped) > 2 /\ IsDigit(CharAt(stripped, 1)) /\ CharAt(stripped, 2) = "."

\* the body of the loop for one numbered line
parse_line(stripped) ==
    LET meta == split_meta(Strip(SubSeq(stripped, 3, Len(stripped))))
    IN parse_item(meta, split_title(meta.content))

\* the loop over the lines; a ValidationError leaves the loop and the function
RECURSIVE parse_lines(_, _, _, _)
parse_lines(lines, i, in_tasks, acc) ==
    IF i > Len(lines) THEN [raised |-> FALSE, tasks |-> acc]
    ELSE IF is_heading(Strip(lines[i])) THEN parse_lines(lines, i + 1, TRUE, acc)
    ELSE IF ~in_tasks \/ Strip(lines[i]) = "" THEN parse_lines(lines, i + 1, in_tasks, acc)
    ELSE IF is_numbered(Strip(lines[i]))
         THEN (IF parse_line(Strip(lines[i])).raised THEN [raised |-> TRUE, tasks |-> <<>>]
               ELSE parse_lines(lines, i + 1, in_tasks,
                                Append(acc, parse_line(Strip(lines[i])).task)))
         ELSE parse_lines(lines, i + 1, in_tasks, acc)

\* AgenticCEO._parse_tasks(text, event)
parse_tasks(text) == parse_lines(splitlines(text), 1, FALSE, <<>>)

\* ---------------------------------------------------------------------
\* Texts given to the parser: the lines as written, and the text they make
\* ---------------------------------------------------------------------
MaxLines == 3

HeadingLine(text) == [kind |-> "heading", text |-> text]
ProseLine(text) == [kind |-> "prose", text |-> text]

\* a numbered line: marker, where the metadata stands, the metadata, title, description
ItemLine(marker, form, area, owner, token, title, desc) ==
    [kind |-> "item", marker |-> marker, form |-> form, area |-> area, owner |-> owner,
     token |-> token, title |-> title, desc |-> desc]

InputLines ==
    { HeadingLine("TASKS:"), HeadingLine("  tasks for today"),
      ProseLine("Plan TASKS below"), ProseLine(""),
      ItemLine("1", "none", "", "", "", "Ship it", ""),
      ItemLine("2", "prefix", "Growth", "CRO", "P1", "Call leads", "today"),
      ItemLine("3", "suffix", "ops", "COO", "p5", "Notify the team", ""),
      ItemLine("4", "prefix", "ops", "COO", "P9", "Big launch", ""),
      ItemLine("5", "suffix", "ops", "COO", "P0", "Tidy up", ""),
      ItemLine("6", "prefix", "ops", "COO", "high", "Hire", ""),
      ItemLine("7", "prefix", "ops", "COO", "P", "Audit", ""),
      ItemLine("8", "prefix", "ops", "COO", "", "Budget", "draft"),
      ItemLine("10", "none", "", "", "", "Late item", "") }

RECURSIVE SeqsUpTo(_, _)
SeqsUpTo(S, n) ==
    IF n = 0 THEN {<<>>}
    ELSE SeqsUpTo(S, n - 1) \cup {Append(q, x) : q \in SeqsUpTo(S, n - 1), x \in S}

InputTexts == SeqsUpTo(InputLines, MaxLines)

\* the line as the planner writes it
FormatLine(l) ==
    IF l.kind # "item" THEN l.text
    ELSE LET meta == "[" \o l.area \o ", " \o l.owner
                     \o (IF l.token = "" THEN "" ELSE ", " \o l.token) \o "]"
             body == IF l.desc = "" THEN l.title ELSE l.title \o " - " \o l.desc
         IN l.marker \o ". " \o (CASE l.form = "prefix" -> meta \o " " \o body
                                     [] l.form = "suffix" -> body \o " " \o meta
                                     [] OTHER -> body)

RECURSIVE JoinLines(_)
JoinLines(ls) ==
    IF ls = <<>> THEN ""
    ELSE IF Len(ls) = 1 THEN FormatLine(ls[1])
    ELSE FormatLine(ls[1]) \o "\n" \o JoinLines(Tail(ls))

\* a response of the planner has arrived
InitParse ==
    /\ tasks = <<>>
    /\ links = <<>>
    /\ reviews = <<>>
    /\ employees = <<>>
    /\ tools = {"log_tool"}
    /\ execution_mode = "auto"
    /\ brain_execution_mode = "auto"
    /\ kpi = NoKpi
    /\ writers = NoWriters
    /\ scheduler = NoScheduler
    /\ reviewers = NoReviewers
    /\ \E ls \in InputTexts : last = Call("llm.complete", ls, FALSE, FALSE, <<>>)

\* new_tasks = self._parse_tasks(response, event) on the response that arrived
call_parse_tasks ==
    /\ last.op = "llm.complete"
    /\ last' = Call("_parse_tasks", last.id, FALSE, parse_tasks(JoinLines(last.id)).raised, parse_tasks(JoinLines(last.id)).tasks)
    /\ UNCHANGED <<tasks, links, reviews, employees, tools, execution_mode, brain_execution_mode, kpi, writers, scheduler, reviewers>>

NextParse == call_parse_tasks

SpecParse == InitParse /\ [][NextParse]_vars

\* ---------------------------------------------------------------------
\* One numbered line under the heading, written from its parts
\* ---------------------------------------------------------------------
MetaMarkers == {"1", "12"}
MetaForms == {"none", "prefix", "suffix"}
MetaAreas == {"", "Growth", "ops"}
MetaOwners == {"", "CRO", "Virtual SDR"}
MetaTokens == {"", "P1", "p4"}

\* the payloads, each with the title and the description it is written to carry
MetaPayloads ==
    { [text |-> "Ship it", title |-> "Ship it", description |-> "Ship it"],
      [text |-> "Call leads - today", title |-> "Call leads", description |-> "today"],
      [text |-> "Plan Q3 ~ draft - v2", title |-> "Plan Q3", description |-> "draft - v2"],
      [text |-> "Fix a-b - now ~ later", title |-> "Fix a-b - now", description |-> "later"],
      [text |-> "[x] Ship", title |-> "[x] Ship", description |-> "[x] Ship"],
      [text |-> "", title |-> "", description |-> ""] }

\* every line has a block or a payload after its number
MetaItems ==
    { ItemLine(m, f, a, o, t, p.text, "") :
        m \in MetaMarkers, f \in MetaForms, a \in MetaAreas, o \in MetaOwners,
        t \in MetaTokens, p \in MetaPayloads }

MetaTexts == { <<HeadingLine("TASKS:"), l>> : l \in {i \in MetaItems : i.form # "none" \/ i.title # ""} }

\* a response with one numbered line has arrived
InitMeta ==
    /\ tasks = <<>>
    /\ links = <<>>
    /\ reviews = <<>>
    /\ employees = <<>>
    /\ tools = {"log_tool"}
    /\ execution_mode = "auto"
    /\ brain_execution_mode = "auto"
    /\ kpi = NoKpi
    /\ writers = NoWriters
    /\ scheduler = NoScheduler
    /\ reviewers = NoReviewers
    /\ \E ls \in MetaTexts : last = Call("llm.complete", ls, FALSE, FALSE, <<>>)

NextMeta == call_parse_tasks

SpecMeta == InitMeta /\ [][NextMeta]_vars

\* ---------------------------------------------------------------------
\* The KPI readings and their alerts
\* ---------------------------------------------------------------------
MaxReadings == 2

KpiNames == {"mrr", "churn"}
KpiValues == 0..2
KpiBounds == {Unset} \cup {Value(v) : v \in KpiValues}

\* KPIEngine.register_threshold(threshold)
register_threshold(name, min_value, max_value) ==
    /\ kpi' = [kpi EXCEPT !.thresholds =
                  [x \in (DOMAIN kpi.thresholds) \cup {name} |->
                     IF x = name THEN KPIThreshold(min_value, max_value) ELSE kpi.thresholds[x]]]
    /\ last' = Call("register_threshold", name, FALSE, FALSE, <<>>)
    /\ UNCHANGED <<tasks, links, reviews, employees, tools, execution_mode, brain_execution_mode, writers, scheduler, reviewers>>

\* KPIEngine.record_kpi(ceo, metric_name, value, unit): the reading is stored, and
\* a value out of range is given to ceo.ingest_event, which plans new_tasks tasks
\* or raises
engine_record_kpi(cap, metric_name, value, ingest, new_tasks) ==
    LET messages == alert_messages(kpi.thresholds, metric_name, value)
        reading == [metric_name |-> metric_name, value |-> value]
        event == [type |-> "kpi_alert", metric_name |-> metric_name, value |-> value,
                  reason |-> messages]
    IN /\ Len(kpi.memory) < MaxReadings
       /\ messages = <<>> => ingest = "ok" /\ new_tasks = 0
       /\ ingest = "raise" => new_tasks = 0
       /\ Len(tasks) + new_tasks <= cap
       /\ kpi' = [kpi EXCEPT !.memory = Append(@, reading),
                             !.events = IF messages = <<>> THEN @ ELSE Append(@, event)]
       /\ tasks' = IF new_tasks = 1
                   THEN Append(tasks, CEOTask(NewTaskId(tasks), "general", "CEO-Agent", "log_tool"))
                   ELSE tasks
       /\ last' = Call("record_kpi", metric_name, FALSE, ingest = "raise",
                       IF ingest = "raise" THEN <<>>
                       ELSE <<[reading |-> reading,
                               alerts_triggered |-> IF messages = <<>> THEN 0 ELSE 1,
                               reason |-> messages]>>)
       /\ UNCHANGED <<links, reviews, employees, tools, execution_mode, brain_execution_mode, writers, scheduler, reviewers>>

NextKpi ==
    \/ \E lo \in KpiBounds, hi \in KpiBounds : register_threshold("mrr", lo, hi)
    \/ \E m \in KpiNames, v \in KpiValues, ingest \in {"ok", "raise"}, n \in 0..1 :
          engine_record_kpi(MaxRouteTasks, m, v, ingest, n)

SpecKpi == Init /\ [][NextKpi]_vars

\* ---------------------------------------------------------------------
\* KPITrendAnalyzer (kpi_trend_analyzer.py), the history of one metric
\* ---------------------------------------------------------------------
\* A reading is [value, age], age in whole weeks since it was recorded: it is within
\* the 7 days when age = 0, within the 30 days when age <= 4, within the 90 days
\* when age <= 12. Values are integers; a quotient is kept as [num, den], den > 0,
\* and compared by cross-multiplication.
MaxHistory == 3
MaxAge == 5

TrendValues == 0..2
TrendBounds == {Unset} \cup {Value(v) : v \in 0..3}

RECURSIVE SumSeq(_)
SumSeq(q) == IF q = <<>> THEN 0 ELSE Head(q) + SumSeq(Tail(q))

InLast7Days(e) == e.age = 0
InLast30Days(e) == e.age <= 4
InLast90Days(e) == e.age <= 12

ValuesOf(readings) == [k \in 1..Len(readings) |-> readings[k].value]

\* get_recent_readings(metric_name, days=30)
get_recent_readings(history) == SelectSeq(history, InLast30Days)

\* readings[-7:]
last_seven(readings) == SubSeq(readings, Max(1, Len(readings) - 6), Len(readings))

\* the slope of the regression line through the values at x = 0, 1, ...: num / den
regression_slope(ys) ==
    LET n == Len(ys)
        sum_x == SumSeq([k \in 1..n |-> k - 1])
        sum_y == SumSeq(ys)
        sum_xy == SumSeq([k \in 1..n |-> (k - 1) * ys[k]])
        sum_x2 == SumSeq([k \in 1..n |-> (k - 1) * (k - 1)])
    IN [num |-> n * sum_xy - sum_x * sum_y, den |-> n * sum_x2 - sum_x * sum_x]

\* projected_value_7d = current * (1 + (rate_of_change / 100) * 7), which is
\* current + 7 * slope; current itself when the rate or the current value is 0
projected_value_7d(current_value, slope) ==
    IF slope.den # 0 /\ slope.num # 0 /\ current_value # 0
    THEN [num |-> current_value * slope.den + 7 * slope.num, den |-> slope.den]
    ELSE [num |-> current_value, den |-> 1]

\* the 7-day average against the 30-day average, each needing two readings
trend_direction(readings) ==
    LET week == ValuesOf(SelectSeq(readings, InLast7Days))
        month == ValuesOf(readings)
    IN IF Len(week) < 2 \/ Len(month) < 2 THEN "stable"
       ELSE IF SumSeq(week) * Len(month) * 100 > SumSeq(month) * Len(week) * 102 THEN "increasing"
       ELSE IF SumSeq(week) * Len(month) * 100 < SumSeq(month) * Len(week) * 98 THEN "decreasing"
       ELSE "stable"

\* the block `if threshold_min is not None`
risk_for_min(risk, threshold_min, current_value, projected, direction) ==
    IF ~IsSet(threshold_min) THEN risk
    ELSE IF current_value < threshold_min[1] THEN "critical"
    ELSE IF projected.num < threshold_min[1] * projected.den THEN "high"
    ELSE IF direction = "decreasing" /\ 10 * current_value < 11 * threshold_min[1] THEN "medium"
    ELSE risk

\* the block `if threshold_max is not None`, which follows it
risk_for_max(risk, threshold_max, current_value, projected, direction) ==
    IF ~IsSet(threshold_max) THEN risk
    ELSE IF current_value > threshold_max[1] THEN "critical"
    ELSE IF projected.num > threshold_max[1] * projected.den THEN "high"
    ELSE IF direction = "increasing" /\ 10 * current_value > 9 * threshold_max[1] THEN "medium"
    ELSE risk

\* KPITrend(...) for three readings or more
KPITrend(readings, threshold_min, threshold_max) ==
    LET current_value == readings[Len(readings)].value
        projected == projected_value_7d(current_value, regression_slope(ValuesOf(last_seven(readings))))
        direction == trend_direction(readings)
    IN [current_value |-> current_value, trend_direction |-> direction,
        days_analyzed |-> Len(readings), projected_value_7d |-> projected,
        threshold_breach_risk |->
            risk_for_max(risk_for_min("low", threshold_min, current_value, projected, direction),
                         threshold_max, current_value, projected, direction)]

\* KPITrendAnalyzer.record_kpi(metric_name, value): append, keep the last 90 days
trend_record_kpi(value) ==
    /\ Len(kpi.history) < MaxHistory
    /\ kpi' = [kpi EXCEPT !.history = SelectSeq(Append(@, [value |-> value, age |-> 0]), InLast90Days)]
    /\ last' = Call("trend.record_kpi", NoId, FALSE, FALSE, <<>>)
    /\ UNCHANGED <<tasks, links, reviews, employees, tools, execution_mode, brain_execution_mode, writers, scheduler, reviewers>>

\* a week goes by between two calls
week_passes ==
    /\ kpi.history # <<>>
    /\ \A k \in 1..Len(kpi.history) : kpi.history[k].age < MaxAge
    /\ kpi' = [kpi EXCEPT !.history = [k \in 1..Len(@) |-> [@[k] EXCEPT !.age = @ + 1]]]
    /\ last' = Call("week_passes", NoId, FALSE, FALSE, <<>>)
    /\ UNCHANGED <<tasks, links, reviews, employees, tools, execution_mode, brain_execution_mode, writers, scheduler, reviewers>>

\* KPITrendAnalyzer.analyze_trend(metric_name, threshold_min, threshold_max):
\* None for fewer than three readings of the last 30 days
analyze_trend(threshold_min, threshold_max) ==
    /\ last' = Call("analyze_trend", <<threshold_min, threshold_max>>, FALSE, FALSE,
                    IF Len(get_recent_readings(kpi.history)) < 3 THEN <<>>
                    ELSE <<KPITrend(get_recent_readings(kpi.history), threshold_min, threshold_max)>>)
    /\ UNCHANGED <<tasks, links, reviews, employees, tools, execution_mode, brain_execution_mode, kpi, writers, scheduler, reviewers>>

NextTrend ==
    \/ \E v \in TrendValues : trend_record_kpi(v)
    \/ week_passes
    \/ \E lo \in TrendBounds, hi \in TrendBounds : analyze_trend(lo, hi)

SpecTrend == Init /\ [][NextTrend]_vars

\* ---------------------------------------------------------------------
\* KPITrendAnalyzer, the history of every metric and its document
\* ---------------------------------------------------------------------
\* A reading is [timestamp, value], the timestamp in days. The clock moves by
\* DayStep days up to MaxDay; a timestamp given by the caller is one of TimePoints.
RetentionDays == 90
DayStep == 45
MaxDay == 135
MaxStored == 2

MetricNames == {"mrr", "churn"}
HistoryValues == {1}
TimePoints == {d \in 0..MaxDay : d % DayStep = 0}

\* KPITrendAnalyzer.__init__ of a new process: _load_history replaces the
\* defaultdict by a plain dict when the document exists
trend_init ==
    /\ kpi' = [kpi EXCEPT !.trend._kpi_history = IF kpi.trend.file_exists THEN kpi.trend.file ELSE EmptyDict,
                          !.trend.is_defaultdict = ~kpi.trend.file_exists]
    /\ last' = Call("KPITrendAnalyzer", NoId, FALSE, FALSE, <<>>)
    /\ UNCHANGED <<tasks, links, reviews, employees, tools, execution_mode, brain_execution_mode, writers, scheduler, reviewers>>

\* self._kpi_history[metric_name] of a dict without the key: the defaultdict
\* inserts [] and a plain dict raises KeyError
has_list(trend, metric_name) == metric_name \in DOMAIN trend._kpi_history \/ trend.is_defaultdict

list_of(trend, metric_name) ==
    IF metric_name \in DOMAIN trend._kpi_history THEN trend._kpi_history[metric_name] ELSE <<>>

\* the list the comprehension of record_kpi keeps
kept_after(entries, cutoff_date) == SelectSeq(entries, LAMBDA e : e.timestamp >= cutoff_date)

\* KPITrendAnalyzer.record_kpi(metric_name, value, timestamp=given or utcnow());
\* _save_history writes the whole dict, or fails silently
history_record_kpi(metric_name, value, given, written) ==
    LET trend == kpi.trend
        timestamp == IF IsSet(given) THEN given[1] ELSE trend.now
        entry == [timestamp |-> timestamp, value |-> value]
        kept == kept_after(Append(list_of(trend, metric_name), entry), timestamp - RetentionDays)
        after == [m \in DOMAIN trend._kpi_history \cup {metric_name} |->
                      IF m = metric_name THEN kept ELSE trend._kpi_history[m]]
    IN /\ Len(list_of(trend, metric_name)) < MaxStored
       /\ IF has_list(trend, metric_name)
          THEN /\ kpi' = [kpi EXCEPT !.trend._kpi_history = after,
                                     !.trend.file_exists = @ \/ written,
                                     !.trend.file = IF written THEN after ELSE @]
               /\ last' = Call("history.record_kpi", <<metric_name, timestamp, value>>, FALSE, FALSE, <<>>)
          ELSE /\ written
               /\ kpi' = kpi
               /\ last' = Call("history.record_kpi", <<metric_name, timestamp, value>>, FALSE, TRUE, <<"KeyError">>)
       /\ UNCHANGED <<tasks, links, reviews, employees, tools, execution_mode, brain_execution_mode, writers, scheduler, reviewers>>

\* DayStep days go by
days_pass ==
    /\ kpi.trend.now + DayStep <= MaxDay
    /\ kpi' = [kpi EXCEPT !.trend.now = @ + DayStep]
    /\ last' = Call("days_pass", NoId, FALSE, FALSE, <<>>)
    /\ UNCHANGED <<tasks, links, reviews, employees, tools, execution_mode, brain_execution_mode, writers, scheduler, reviewers>>

NextHistory ==
    \/ trend_init
    \/ \E m \in MetricNames, v \in HistoryValues, given \in {Unset} \cup {Value(d) : d \in TimePoints},
          written \in BOOLEAN : history_record_kpi(m, v, given, written)
    \/ days_pass

SpecHistory == Init /\ [][NextHistory]_vars

\* ---------------------------------------------------------------------
\* The open task tree
\* ---------------------------------------------------------------------
\* all_child_ids in TaskManager.get_open_task_tree
all_child_ids(lk) == UNION {Range(lk[p]) : p \in DOMAIN lk}

\* build_node in TaskManager.get_open_task_tree; the nested dict is written in
\* depth-first order, each node naming the node it is nested in (NoId at top level)
RECURSIVE build_node(_, _, _, _, _)
RECURSIVE build_children(_, _, _, _, _)
build_node(ts, lk, rv, task_id, parent) ==
    LET ti == find_task(ts, task_id)
    IN IF ti = NoId THEN <<>>
       ELSE IF ts[ti].status = "done" THEN <<>>
       ELSE <<[task |-> task_id, review_status |-> get_review_status(rv, task_id),
               parent |-> parent]>>
            \o build_children(ts, lk, rv, task_id, get_children_ids(lk, task_id))

\* the loop over links.get(task_id, []) in build_node
build_children(ts, lk, rv, task_id, cids) ==
    IF cids = <<>> THEN <<>>
    ELSE build_node(ts, lk, rv, Head(cids), task_id)
         \o build_children(ts, lk, rv, task_id, Tail(cids))

\* the loop over root_ids in TaskManager.get_open_task_tree
RECURSIVE build_roots(_, _, _, _)
build_roots(ts, lk, rv, i) ==
    IF i > Len(ts) THEN <<>>
    ELSE (IF ts[i].id \in all_child_ids(lk) THEN <<>>
          ELSE build_node(ts, lk, rv, ts[i].id, NoId))
         \o build_roots(ts, lk, rv, i + 1)

\* TaskManager.get_open_task_tree()
get_open_task_tree ==
    /\ last' = Call("get_open_task_tree", NoId, FALSE, FALSE, build_roots(tasks, links, reviews, 1))
    /\ UNCHANGED <<tasks, links, reviews, employees, tools, execution_mode, brain_execution_mode, kpi, writers, scheduler, reviewers>>

\* the TaskManager operations and the inspection of the open task tree
NextTree ==
    \/ TaskManagerNext(MaxTasks)
    \/ get_open_task_tree

SpecTree == Init /\ [][NextTree]_vars

\* ---------------------------------------------------------------------
\* Properties of the task tree
\* ---------------------------------------------------------------------
\* the parents that list the id among their children
ParentsOf(lk, id) == {p \in DOMAIN lk : id \in Range(lk[p])}

\* a is an ancestor of c by at most n links
RECURSIVE IsAncestor(_, _, _, _)
IsAncestor(lk, a, c, n) ==
    /\ n > 0
    /\ \E p \in ParentsOf(lk, c) : p = a \/ IsAncestor(lk, a, p, n - 1)

\* each id is listed once, under at most one parent, and is not its own ancestor
Forest(ts, lk) ==
    /\ \A p \in DOMAIN lk : \A j, k \in 1..Len(lk[p]) : lk[p][j] = lk[p][k] => j = k
    /\ \A i \in 1..Len(ts) :
          /\ Cardinality(ParentsOf(lk, ts[i].id)) <= 1
          /\ ~IsAncestor(lk, ts[i].id, ts[i].id, Len(ts))

\* C17: the links are a forest after every step, and create_subtask raises exactly
\* when the parent id is unknown, leaving the task list, the links and the reviews
\* as they were.
C17_Step ==
    /\ Forest(tasks', links')
    /\ last'.op = "create_subtask"
       => /\ last'.raised <=> find_task(tasks, last'.id) = NoId
          /\ last'.raised => tasks' = tasks /\ links' = links /\ reviews' = reviews
          /\ ~last'.raised
             => /\ Len(tasks') = Len(tasks) + 1
                /\ ParentsOf(links', tasks'[Len(tasks')].id) = {last'.id}
                /\ tasks'[Len(tasks')].status = "todo"
                /\ get_review_status(reviews', tasks'[Len(tasks')].id) = "none"

C17_LinksAreAForest == [][C17_Step]_vars

\* create_subtask has raised on an unknown parent id while a task had a child
C17_Witness ==
    /\ last.op = "create_subtask" /\ last.raised
    /\ find_task(tasks, last.id) = NoId
    /\ \E p \in DOMAIN links : links[p] # <<>>
    /\ Forest(tasks, links)

\* C18: the open task tree lists every task that is not done exactly once and no
\* done task; its top-level nodes are the tasks without a parent, every other node
\* is nested in its parent, and a parent is listed before its children.
C18_Tree(tree) ==
    /\ \A i \in 1..Len(tasks) :
          IF tasks[i].status = "done"
          THEN \A k \in 1..Len(tree) : tree[k].task # tasks[i].id
          ELSE Cardinality({k \in 1..Len(tree) : tree[k].task = tasks[i].id}) = 1
    /\ \A k \in 1..Len(tree) :
          IF tree[k].parent = NoId
          THEN ParentsOf(links, tree[k].task) = {}
          ELSE /\ ParentsOf(links, tree[k].task) = {tree[k].parent}
               /\ \E j \in 1..(k - 1) : tree[j].task = tree[k].parent

C18_OpenTreeListsEveryOpenTask == last.op = "get_open_task_tree" => C18_Tree(last.results)

\* ---------------------------------------------------------------------
\* Properties of the parser
\* ---------------------------------------------------------------------
\* the lines after the first heading line, in line order
RECURSIVE AfterHeading(_, _)
AfterHeading(ls, seen) ==
    IF ls = <<>> THEN <<>>
    ELSE IF Head(ls).kind = "heading" THEN AfterHeading(Tail(ls), TRUE)
    ELSE (IF seen THEN <<Head(ls)>> ELSE <<>>) \o AfterHeading(Tail(ls), seen)

IsItem(l) == l.kind = "item"

\* the numbered lines that are to produce a draft
ItemsAfterHeading(ls) == SelectSeq(AfterHeading(ls, FALSE), IsItem)

\* a priority token is well formed: the letter P, in either case, then digits only
WellFormedToken(token) ==
    /\ Len(token) >= 2
    /\ CharAt(token, 1) \in {"P", "p"}
    /\ \A i \in 2..Len(token) : CharAt(token, i) \in Digits

\* the priority the token stands for
TokenPriority(token) ==
    IF WellFormedToken(token) THEN DecimalValue(SubSeq(token, 2, Len(token)), 0) ELSE 3

\* C19: the parser returns for every text, every draft has a priority in 1..5, and
\* the priority of a draft is the numeral of its line's token when the token is
\* well formed and 3 when the token is absent or malformed.
C19_ParserToleratesAnyPriorityToken ==
    last.op = "_parse_tasks"
    => /\ ~last.raised
       /\ \A k \in 1..Len(last.results) : last.results[k].priority \in 1..5
       /\ \A k \in 1..Len(last.results) :
             \A l \in InputLines :
                l.kind = "item" /\ l.title = last.results[k].title
                => last.results[k].priority = TokenPriority(l.token)

\* C20: when the parser returns, its drafts are the numbered lines after the first
\* heading line, one draft per line and in line order; numbered lines before the
\* heading give nothing, and a text without a heading gives no draft and no error.
C20_DraftsAreTheNumberedLinesAfterHeading ==
    last.op = "_parse_tasks"
    => LET items == ItemsAfterHeading(last.id)
       IN /\ (\A k \in 1..Len(last.id) : last.id[k].kind # "heading")
             => ~last.raised /\ last.results = <<>>
          /\ ~last.raised
             => /\ Len(last.results) = Len(items)
                /\ \A k \in 1..Len(items) : last.results[k].title = items[k].title

\* ---------------------------------------------------------------------
\* Properties of the metadata and the payload of a numbered line
\* ---------------------------------------------------------------------
\* the numbered line of a text of one heading and one numbered line
TheItem == last.id[2]

\* the payload the line was written with
ThePayload == CHOOSE p \in MetaPayloads : p.text = TheItem.title

\* the same text with the metadata block at the other end of the line
OtherEnd(ls) ==
    <<ls[1], [ls[2] EXCEPT !.form = IF ls[2].form = "prefix" THEN "suffix" ELSE "prefix"]>>

\* two results of the parser agree on area, owner, priority, title and description
SameFields(r1, r2) ==
    /\ r1.raised = r2.raised
    /\ Len(r1.tasks) = Len(r2.tasks)
    /\ \A k \in 1..Len(r1.tasks) :
          /\ r1.tasks[k].area = r2.tasks[k].area
          /\ r1.tasks[k].suggested_owner = r2.tasks[k].suggested_owner
          /\ r1.tasks[k].priority = r2.tasks[k].priority
          /\ r1.tasks[k].title = r2.tasks[k].title
          /\ r1.tasks[k].description = r2.tasks[k].description

Parsed == [raised |-> last.raised, tasks |-> last.results]

\* C21 as stated: for every metadata block and every payload, the line with the
\* block as prefix and the line with the block as suffix parse to the same fields.
C21_PositionSymmetry ==
    last.op = "_parse_tasks" /\ TheItem.form # "none"
    => SameFields(Parsed, parse_tasks(JoinLines(OtherEnd(last.id))))

\* C21: the line with the block as prefix and the line with the block as suffix
\* parse to the same area, owner, priority, title and description whenever the
\* payload does not itself begin with "[" (the prefix form is tried first).
C21_PositionSymmetryUnlessPayloadOpensBracket ==
    last.op = "_parse_tasks" /\ TheItem.form # "none" /\ ~StartsWith(TheItem.title, "[")
    => SameFields(Parsed, parse_tasks(JoinLines(OtherEnd(last.id))))

\* a one-digit line with a full block at the end has been parsed into a draft
C21_Witness ==
    /\ last.op = "_parse_tasks" /\ Len(last.results) = 1
    /\ TheItem.form = "suffix" /\ TheItem.token = "P1" /\ TheItem.area = "Growth"
    /\ TheItem.owner = "CRO" /\ TheItem.title = "Call leads - today"
    /\ last.results[1].area = "growth" /\ last.results[1].priority = 1

\* C22: every draft has a non-empty title and a non-empty description, and when the
\* payload has no separator both equal the whole trimmed payload.
C22_DescriptionNeverEmpty ==
    last.op = "_parse_tasks"
    => \A k \in 1..Len(last.results) :
          /\ last.results[k].title # ""
          /\ last.results[k].description # ""
          /\ (~Contains(TheItem.title, " - ") /\ ~Contains(TheItem.title, " ~ ")
               /\ ~StartsWith(TheItem.title, "["))
             => /\ last.results[k].title = TheItem.title
                /\ last.results[k].description = TheItem.title

\* C23: a line under the heading that begins with one or more digits and a period
\* gives a draft, also when its number is 10 or above.
C23_EveryNumberedLineGivesADraft ==
    last.op = "_parse_tasks" /\ ~last.raised => Len(last.results) = 1

\* the area and the owner the draft is to carry
ExpectedArea(a) == CASE a = "" -> "general" [] a = "Growth" -> "growth" [] OTHER -> a
ExpectedOwner(o) == IF o = "" THEN "CEO-Agent" ELSE o

\* C24: for a one-digit line whose only bracketed text is the block, the draft has
\* the area lower-cased, the owner as written, the priority of the token, the
\* default for each field left empty or out and for a line without a block, and the
\* title and description of the payload split at the first en dash, else at the
\* first " - ".
C24_MetadataExtraction ==
    last.op = "_parse_tasks" /\ TheItem.marker = "1" /\ ~StartsWith(TheItem.title, "[")
    => /\ ~last.raised /\ Len(last.results) = 1
       /\ last.results[1].title = ThePayload.title
       /\ last.results[1].description = ThePayload.description
       /\ IF TheItem.form = "none"
          THEN /\ last.results[1].area = "general"
               /\ last.results[1].suggested_owner = "CEO-Agent"
               /\ last.results[1].priority = 3
          ELSE /\ last.results[1].area = ExpectedArea(TheItem.area)
               /\ last.results[1].suggested_owner = ExpectedOwner(TheItem.owner)
               /\ last.results[1].priority = TokenPriority(TheItem.token)

\* a line with an upper-case area, an owner of two words, a lower-case token and a
\* payload holding both separators has been parsed
C24_Witness ==
    /\ last.op = "_parse_tasks" /\ Len(last.results) = 1
    /\ TheItem.marker = "1" /\ TheItem.form = "prefix"
    /\ TheItem.area = "Growth" /\ TheItem.owner = "Virtual SDR" /\ TheItem.token = "p4"
    /\ TheItem.title = "Fix a-b - now ~ later"
    /\ last.results[1].priority = 4 /\ last.results[1].description = "later"

\* ---------------------------------------------------------------------
\* Properties of the KPI alerts
\* ---------------------------------------------------------------------
\* the value is beyond the bound of the threshold configured for the metric
BelowMin(thresholds, m, v) ==
    m \in DOMAIN thresholds /\ thresholds[m].min_value # Unset /\ v < thresholds[m].min_value[1]

AboveMax(thresholds, m, v) ==
    m \in DOMAIN thresholds /\ thresholds[m].max_value # Unset /\ v > thresholds[m].max_value[1]

\* C25: a recording stores the reading and gives exactly one kpi_alert event to
\* ingest_event when the value is below a configured minimum or above a configured
\* maximum, the reason naming every bound it is beyond, and gives none otherwise
\* (a value on a bound, or a metric without a threshold); when the call returns it
\* reports that number of alerts.
C25_Step ==
    last'.op = "record_kpi"
    => LET m == last'.id
           v == kpi'.memory[Len(kpi'.memory)].value
           below == BelowMin(kpi.thresholds, m, v)
           above == AboveMax(kpi.thresholds, m, v)
       IN /\ kpi'.memory = Append(kpi.memory, [metric_name |-> m, value |-> v])
          /\ kpi'.thresholds = kpi.thresholds
          /\ IF below \/ above
             THEN /\ Len(kpi'.events) = Len(kpi.events) + 1
                  /\ SubSeq(kpi'.events, 1, Len(kpi.events)) = kpi.events
                  /\ kpi'.events[Len(kpi'.events)].type = "kpi_alert"
                  /\ kpi'.events[Len(kpi'.events)].metric_name = m
                  /\ kpi'.events[Len(kpi'.events)].value = v
                  /\ kpi'.events[Len(kpi'.events)].reason =
                        (IF below THEN <<"below minimum">> ELSE <<>>)
                        \o (IF above THEN <<"above maximum">> ELSE <<>>)
                  /\ ~last'.raised => last'.results[1].alerts_triggered = 1
             ELSE /\ kpi'.events = kpi.events
                  /\ tasks' = tasks
                  /\ ~last'.raised /\ last'.results[1].alerts_triggered = 0

C25_AlertIffOutOfRange == [][C25_Step]_vars

\* a value between a minimum and a smaller maximum has raised one alert naming both
\* bounds, after a value on a bound raised none
C25_Witness ==
    /\ last.op = "record_kpi" /\ ~last.raised
    /\ last.results[1].reason = <<"below minimum", "above maximum">>
    /\ Len(kpi.memory) = 2 /\ Len(kpi.events) = 1

\* ---------------------------------------------------------------------
\* Properties of the trend analysis
\* ---------------------------------------------------------------------
\* the risk by the first rule that matches, each rule looking at both bounds
FirstMatchRisk(t, lo, hi) ==
    LET p == t.projected_value_7d
    IN IF (IsSet(lo) /\ t.current_value < lo[1]) \/ (IsSet(hi) /\ t.current_value > hi[1])
       THEN "critical"
       ELSE IF (IsSet(lo) /\ p.num < lo[1] * p.den) \/ (IsSet(hi) /\ p.num > hi[1] * p.den)
       THEN "high"
       ELSE IF \/ IsSet(lo) /\ t.trend_direction = "decreasing" /\ 10 * t.current_value < 11 * lo[1]
               \/ IsSet(hi) /\ t.trend_direction = "increasing" /\ 10 * t.current_value > 9 * hi[1]
       THEN "medium"
       ELSE "low"

\* C26: the breach risk of a trend is the first that matches of: critical when the
\* current value is beyond a configured bound, high when the 7-day projection is,
\* medium when the trend moves toward a bound within 10% of it, else low.
C26_RiskIsFirstMatch ==
    last.op = "analyze_trend" /\ last.results # <<>>
    => last.results[1].threshold_breach_risk = FirstMatchRisk(last.results[1], last.id[1], last.id[2])

\* ---------------------------------------------------------------------
\* Properties of the review records
\* ---------------------------------------------------------------------
\* C30: a task whose review status is other than none has status done, and a step
\* gives a review record to a task that had none only by mark_task_done_by_delegate.
C30_Step ==
    /\ \A i \in 1..Len(tasks') :
          get_review_status(reviews', tasks'[i].id) # "none" => tasks'[i].status = "done"
    /\ \A i \in 1..Len(tasks) :
          get_review_status(reviews, tasks[i].id) = "none"
          /\ get_review_status(reviews', tasks[i].id) # "none"
          => last'.op = "mark_task_done_by_delegate" /\ last'.id = tasks[i].id

C30_ReviewedTasksWereMarkedDone == [][C30_Step]_vars

\* ---------------------------------------------------------------------
\* A process restart (ceo_auto.py run_autonomous_cycle, CompanyBrain.from_config)
\* ---------------------------------------------------------------------
\* the ids the persisted meta document names: the parents and children of "links"
\* and the keys of "reviews" (TaskManager._load_meta)
meta_ids(lk, rv) == DOMAIN lk \cup all_child_ids(lk) \cup DOMAIN rv

\* uuid.uuid4() never returns an id the meta document already names; the model's
\* counter does so only while this holds
fresh_task_id == NewTaskId(tasks) \notin meta_ids(links, reviews)

\* CompanyBrain.from_config: a new AgenticCEO with CEOState(tasks=[]) and the
\* default tool registry; TaskManager._load_meta and VirtualStaffManager._load_state
\* read back the documents every mutation saved; MemoryEngine._load reads back the
\* memory file; the thresholds come from the same config
from_config ==
    /\ tasks' = <<>>
    /\ tools' = {"log_tool"}
    /\ execution_mode' = "auto"
    /\ last' = Call("from_config", NoId, FALSE, FALSE, <<>>)
    /\ UNCHANGED <<links, reviews, employees, brain_execution_mode, kpi, writers, scheduler, reviewers>>

\* the TaskManager operations of one process after another
NextRestart ==
    \/ \E a \in SpecAreas, o \in SpecOwners, tl \in SpecTools :
          fresh_task_id /\ plan_day(MaxTasks, a, o, tl)
    \/ \E p \in 1..MaxTasks : fresh_task_id /\ create_subtask(MaxTasks, p, None, None)
    \/ \E id \in 1..MaxTasks : mark_task_done_by_delegate(id)
    \/ \E id \in 1..MaxTasks, approved \in BOOLEAN : review_task(id, approved)
    \/ from_config

SpecRestart == Init /\ [][NextRestart]_vars

\* ---------------------------------------------------------------------
\* Properties of a restart
\* ---------------------------------------------------------------------
\* C27: a restart keeps every task with its status, so that after it every id the
\* links and the review records name is the id of a present task.
C27_Step ==
    last'.op = "from_config" /\ last.op # "from_config"
    => /\ tasks' = tasks
       /\ meta_ids(links', reviews') \subseteq {tasks'[i].id : i \in 1..Len(tasks')}

C27_StateSurvivesARestart == [][C27_Step]_vars

\* ---------------------------------------------------------------------
\* Two processes of one company (virtual_staff_manager.py, task_manager.py)
\* ---------------------------------------------------------------------
\* each process has its own VirtualStaffManager and TaskManager over the same
\* storage_dir and company_id, hence the same two files; no lock is taken anywhere.
\* json.dump into a file opened with "w" is taken as one step here: the outcomes of
\* two writes that overlap in time are not among the states below.
WriterProcs == {1, 2}
ReviewIds == {1, 2}
ReviewStatuses == {"awaiting"}
WriterRoles == {"Content Writer"}

\* VirtualStaffManager.__init__ (_load_state) and TaskManager.__init__ (_load_meta)
writer_load(p) ==
    /\ writers' = [writers EXCEPT !.staff[p] = writers.staff_file,
                                  !.meta[p] = writers.meta_file]
    /\ last' = Call("_load_state", p, FALSE, FALSE, <<>>)
    /\ UNCHANGED <<tasks, links, reviews, employees, tools, execution_mode, brain_execution_mode, kpi, scheduler, reviewers>>

\* ensure_capacity_for_role in process p; create_virtual_employee ends with _save_state
writer_ensure_capacity(p, role, min_task_slots) ==
    LET cap == ensure_capacity_for_role(writers.staff[p], role, min_task_slots)
    IN /\ Len(cap.employees) <= MaxEmployees
       /\ writers' = [writers EXCEPT !.staff[p] = cap.employees,
                                     !.staff_file = IF cap.created THEN cap.employees ELSE @]
       /\ last' = Call("ensure_capacity_for_role", p, FALSE, FALSE, <<cap.created>>)
       /\ UNCHANGED <<tasks, links, reviews, employees, tools, execution_mode, brain_execution_mode, kpi, scheduler, reviewers>>

\* assign_task_to_virtual_employee in process p; returns None without a save when
\* the worker is unknown to p or inactive
writer_assign_task(p, employee_id) ==
    LET after == assign_task_to_virtual_employee(writers.staff[p], employee_id)
        found == after # writers.staff[p]
    IN /\ \A k \in 1..Len(after) : after[k].tasks_assigned_today <= MaxAssigned
       /\ writers' = [writers EXCEPT !.staff[p] = after,
                                     !.staff_file = IF found THEN after ELSE @]
       /\ last' = Call("assign_task_to_virtual_employee", p, FALSE, FALSE, <<found>>)
       /\ UNCHANGED <<tasks, links, reviews, employees, tools, execution_mode, brain_execution_mode, kpi, scheduler, reviewers>>

\* _set_review in process p, ending with _save_meta
writer_set_review(p, task_id, status) ==
    LET after == set_review(writers.meta[p], task_id, status)
    IN /\ writers' = [writers EXCEPT !.meta[p] = after, !.meta_file = after]
       /\ last' = Call("_set_review", p, FALSE, FALSE, <<task_id>>)
       /\ UNCHANGED <<tasks, links, reviews, employees, tools, execution_mode, brain_execution_mode, kpi, scheduler, reviewers>>

NextWriters ==
    \/ \E p \in WriterProcs : writer_load(p)
    \/ \E p \in WriterProcs, role \in WriterRoles : writer_ensure_capacity(p, role, MaxSlots)
    \/ \E p \in WriterProcs, id \in 1..MaxEmployees : writer_assign_task(p, id)
    \/ \E p \in WriterProcs, id \in ReviewIds, st \in ReviewStatuses : writer_set_review(p, id, st)

SpecWriters == Init /\ [][NextWriters]_vars

\* ---------------------------------------------------------------------
\* Properties of the persisted documents
\* ---------------------------------------------------------------------
\* C28: no write of one process loses what the other has persisted: a worker in the
\* staff document stays in it with a counter that did not go down, and a task with a
\* review record in the meta document keeps a record.
C28_Step ==
    /\ Len(writers.staff_file) <= Len(writers'.staff_file)
    /\ \A k \in 1..Len(writers.staff_file) :
          /\ writers'.staff_file[k].id = writers.staff_file[k].id
          /\ writers'.staff_file[k].tasks_assigned_today
                >= writers.staff_file[k].tasks_assigned_today
    /\ DOMAIN writers.meta_file \subseteq DOMAIN writers'.meta_file

C28_NoPersistedUpdateIsLost == [][C28_Step]_vars

\* ---------------------------------------------------------------------
\* The continuous scheduler (ceo_auto.py run_continuous_scheduler)
\* ---------------------------------------------------------------------
\* cycles the model lets one scheduler run
MaxCycles == 3

\* interval_seconds, and the `min(60, interval_seconds)` of the wait
IntervalSeconds == 120
WaitCheck == 60
wait_interval == IF WaitCheck <= IntervalSeconds THEN WaitCheck ELSE IntervalSeconds

\* a variant of the loop test that does not look at the event
loop_continues_always(shutdown_event) == TRUE

\* `while not shutdown_event.is_set()`
loop_continues(shutdown_event) == ~shutdown_event

SchedulerStep(op, after) ==
    /\ scheduler' = after
    /\ last' = Call(op, scheduler.cycle_count, FALSE, FALSE, <<>>)
    /\ UNCHANGED <<tasks, links, reviews, employees, tools, execution_mode, brain_execution_mode, kpi, writers, reviewers>>

\* signal_handler(signum, frame): runs between any two steps of the loop
signal_handler ==
    /\ scheduler.pc # "stopped"
    /\ SchedulerStep("signal_handler",
          [scheduler EXCEPT !.shutdown_event = TRUE,
                            !.signal_pc = IF scheduler.shutdown_event THEN @ ELSE scheduler.pc])

\* the test of the outer while; when it passes, cycle_count += 1
loop_test ==
    /\ scheduler.pc = "test"
    /\ IF loop_continues(scheduler.shutdown_event)
       THEN /\ scheduler.cycle_count < MaxCycles
            /\ SchedulerStep("loop_test",
                  [scheduler EXCEPT !.pc = "start", !.cycle_count = @ + 1])
       ELSE SchedulerStep("loop_test", [scheduler EXCEPT !.pc = "stopped"])

\* `await run_autonomous_cycle(...)` is entered; the brain it builds is local to it
cycle_begin ==
    /\ scheduler.pc = "start"
    /\ SchedulerStep("cycle_begin",
          [scheduler EXCEPT !.pc = "cycle", !.running = @ + 1,
                            !.late = IF scheduler.shutdown_event THEN @ + 1 ELSE @])

\* run_autonomous_cycle returns its summary, and autonomy_cycles.json is written or
\* the write fails with a warning; or the call raises and `except Exception` logs it
cycle_end(raised, written) ==
    /\ scheduler.pc = "cycle"
    /\ SchedulerStep(IF raised THEN "cycle_failed" ELSE "cycle_complete",
          [scheduler EXCEPT !.pc = "after", !.running = @ - 1,
                            !.failed = IF raised THEN @ + 1 ELSE @,
                            !.total_cycles = IF ~raised /\ written
                                             THEN scheduler.cycle_count ELSE @])

\* `if not shutdown_event.is_set()` after the cycle: waited = 0
after_cycle ==
    /\ scheduler.pc = "after"
    /\ SchedulerStep("after_cycle",
          IF ~scheduler.shutdown_event
          THEN [scheduler EXCEPT !.pc = "wait", !.waited = 0]
          ELSE [scheduler EXCEPT !.pc = "test"])

\* `while waited < interval_seconds and not shutdown_event.is_set()`
wait_test ==
    /\ scheduler.pc = "wait"
    /\ SchedulerStep("wait_test",
          IF scheduler.waited < IntervalSeconds /\ ~scheduler.shutdown_event
          THEN [scheduler EXCEPT !.pc = "sleep"]
          ELSE [scheduler EXCEPT !.pc = "test"])

\* `await asyncio.sleep(wait_interval)` returns; waited += wait_interval
sleep_returns ==
    /\ scheduler.pc = "sleep"
    /\ SchedulerStep("sleep_returns",
          [scheduler EXCEPT !.pc = "wait", !.waited = @ + wait_interval])

LoopStep ==
    \/ loop_test
    \/ cycle_begin
    \/ \E raised \in BOOLEAN, written \in BOOLEAN : cycle_end(raised, written)
    \/ after_cycle
    \/ wait_test
    \/ sleep_returns

NextScheduler == LoopStep \/ signal_handler

\* the event loop runs the one coroutine it has: a step of the loop that can be taken
\* is taken; nothing obliges a signal to arrive
SpecScheduler == Init /\ [][NextScheduler]_vars /\ WF_vars(LoopStep)

C29_Step ==
    /\ scheduler.shutdown_event => scheduler'.cycle_count = scheduler.cycle_count
    /\ scheduler'.running > scheduler.running => scheduler.running = 0

Chains(lk) ==
    {ch \in (DOMAIN lk) \X (DOMAIN lk) \X all_child_ids(lk) :
        ch[2] \in Range(lk[ch[1]]) /\ ch[3] \in Range(lk[ch[2]])}

StatusOf(ts, task_id) == IF find_task(ts, task_id) = NoId THEN "absent" ELSE ts[find_task(ts, task_id)].status

\* C31: a step changes the review status of a task only if it is
\* mark_task_done_by_delegate or review_task called on that task, so auto-close and
\* run_pending_tasks leave every review status as it was; and in a chain G -> P -> C,
\* a review of C that closes P closes G as well only if P's own review status is approved.
C31_Step ==
    /\ \A id \in (DOMAIN reviews) \cup (DOMAIN reviews') :
          get_review_status(reviews', id) # get_review_status(reviews, id)
          => last'.op \in {"mark_task_done_by_delegate", "review_task"} /\ last'.id = id
    /\ \A ch \in Chains(links) :
          /\ last'.op = "review_task" /\ last'.id = ch[3]
          /\ StatusOf(tasks, ch[2]) # "done" /\ StatusOf(tasks', ch[2]) = "done"
          /\ StatusOf(tasks, ch[1]) # "done" /\ StatusOf(tasks', ch[1]) = "done"
          => get_review_status(reviews', ch[2]) = "approved"

C31_ReviewStatusOnlyByExplicitCalls == [][C31_Step]_vars

\* the approval of C has closed P, whose review status is still none, and G stays open
C31_Witness ==
    \E ch \in Chains(links) :
        /\ last.op = "review_task" /\ last.id = ch[3] /\ last.approved
        /\ StatusOf(tasks, ch[2]) = "done" /\ get_review_status(reviews, ch[2]) = "none"
        /\ get_review_status(reviews, ch[3]) = "approved"
        /\ StatusOf(tasks, ch[1]) = "todo"

\* ---------------------------------------------------------------------
\* Two review_task calls interleaved (task_manager.py review_task,
\* _maybe_auto_close_parent_chain)
\* ---------------------------------------------------------------------
\* two callers of review_task(task_id, approved=True) on one TaskManager; each call is
\* cut into the steps: set review; read the children of the parent; set the parent
Reviewers == {1, 2}

\* a variant of the close that flips the status it finds
flipped_status(status) == IF status = "done" THEN "todo" ELSE "done"

\* `parent.status = "done"`
closed_status(status) == "done"

ReviewerStep(op, t, after) ==
    /\ reviewers' = after
    /\ last' = Call(op, t, TRUE, FALSE, <<>>)
    /\ UNCHANGED <<links, employees, tools, execution_mode, brain_execution_mode, kpi, writers, scheduler>>

NoReviewInFlight == reviewers.pc = <<"idle", "idle">>

\* review_task is entered: _find_task; None is returned for an unknown id
review_begin(t, task_id) ==
    /\ reviewers.pc[t] = "idle"
    /\ find_task(tasks, task_id) # NoId
    /\ ReviewerStep("review_begin", t,
          [reviewers EXCEPT !.pc[t] = "set", !.task_id[t] = task_id,
                            !.before = IF NoReviewInFlight
                                       THEN [tasks |-> tasks, reviews |-> reviews] ELSE @])
    /\ UNCHANGED <<tasks, reviews>>

\* _set_review(task_id, "approved"), record_decision, _get_parent_id
review_set(t) ==
    /\ reviewers.pc[t] = "set"
    /\ reviews' = set_review(reviews, reviewers.task_id[t], "approved")
    /\ LET parent_id == get_parent_id(links, reviewers.task_id[t])
       IN ReviewerStep("review_set", t,
             [reviewers EXCEPT !.pc[t] = IF parent_id # NoId THEN "read" ELSE "returned",
                               !.parent_id[t] = parent_id])
    /\ UNCHANGED tasks

\* _maybe_auto_close_parent_chain up to the end of the loop over the children
review_read(t) ==
    /\ reviewers.pc[t] = "read"
    /\ LET parent_id == reviewers.parent_id[t]
           cids == get_children_ids(links, parent_id)
           cts == children_tasks(tasks, cids)
           go == /\ find_task(tasks, parent_id) # NoId
                 /\ cids # <<>>
                 /\ cts # <<>>
                 /\ all_children_done_and_approved(cts, reviews)
       IN ReviewerStep("review_read", t,
             [reviewers EXCEPT !.pc[t] = IF go THEN "close" ELSE "returned"])
    /\ UNCHANGED <<tasks, reviews>>

\* parent.status = "done", record_decision, and the recursion to the grandparent
review_close(t) ==
    /\ reviewers.pc[t] = "close"
    /\ LET pi == find_task(tasks, reviewers.parent_id[t])
           grandparent_id == get_parent_id(links, reviewers.parent_id[t])
       IN /\ tasks' = [tasks EXCEPT ![pi].status = closed_status(@)]
          /\ ReviewerStep("review_close", t,
                [reviewers EXCEPT !.pc[t] = IF grandparent_id # NoId THEN "read" ELSE "returned",
                                  !.parent_id[t] = grandparent_id,
                                  !.closes = @ + 1])
    /\ UNCHANGED reviews

\* the tasks are planned, split and marked done, reviewed or not, before the two
\* calls begin; nothing else runs while a call is in flight
NextRace ==
    \/ NoReviewInFlight /\ \E a \in SpecAreas, o \in SpecOwners, tl \in SpecTools :
          plan_day(MaxTasks, a, o, tl)
    \/ NoReviewInFlight /\ \E p \in 1..MaxTasks : create_subtask(MaxTasks, p, None, None)
    \/ NoReviewInFlight /\ \E id \in 1..MaxTasks : mark_task_done_by_delegate(id)
    \/ \E t \in Reviewers, id \in 1..MaxTasks : review_begin(t, id)
    \/ \E t \in Reviewers : review_set(t)
    \/ \E t \in Reviewers : review_read(t)
    \/ \E t \in Reviewers : review_close(t)

SpecRace == Init /\ [][NextRace]_vars

\* ---------------------------------------------------------------------
\* Properties of the interleaved reviews
\* ---------------------------------------------------------------------
\* the ancestors of a task in the links
Ancestors(id) == {a \in DOMAIN links : IsAncestor(links, a, id, MaxTasks)}

\* both calls have returned, and they were made on two done children of one parent
\* whose other children, if any, are done and approved
TwoSiblingsReviewed ==
    /\ reviewers.pc = <<"returned", "returned">>
    /\ reviewers.task_id[1] # reviewers.task_id[2]
    /\ get_parent_id(links, reviewers.task_id[1]) # NoId
    /\ get_parent_id(links, reviewers.task_id[1]) = get_parent_id(links, reviewers.task_id[2])
    /\ \A c \in Range(get_children_ids(links, get_parent_id(links, reviewers.task_id[1]))) :
          /\ StatusOf(reviewers.before.tasks, c) = "done"
          /\ c \in {reviewers.task_id[1], reviewers.task_id[2]}
             \/ get_review_status(reviewers.before.reviews, c) = "approved"

\* C32: whatever the interleaving of the steps of the two calls, when both have
\* returned the parent is done, both children are approved, and the only statuses
\* that differ from those before the calls are those of ancestors of the children,
\* and the only review records those of the two children.
C32_InterleavedReviewsCloseTheParent ==
    TwoSiblingsReviewed =>
        /\ StatusOf(tasks, get_parent_id(links, reviewers.task_id[1])) = "done"
        /\ get_review_status(reviews, reviewers.task_id[1]) = "approved"
        /\ get_review_status(reviews, reviewers.task_id[2]) = "approved"
        /\ Len(tasks) = Len(reviewers.before.tasks)
        /\ \A i \in 1..Len(tasks) :
              tasks[i] # reviewers.before.tasks[i]
              => /\ tasks[i].id \in Ancestors(reviewers.task_id[1])
                 /\ tasks[i] = [reviewers.before.tasks[i] EXCEPT !.status = "done"]
        /\ \A id \in 1..MaxTasks :
              id \notin {reviewers.task_id[1], reviewers.task_id[2]}
              => get_review_status(reviews, id) = get_review_status(reviewers.before.reviews, id)

\* both calls found the parent open with all children approved, and both closed it
C32_Witness ==
    /\ TwoSiblingsReviewed
    /\ reviewers.closes = 2
    /\ StatusOf(reviewers.before.tasks, get_parent_id(links, reviewers.task_id[1])) = "todo"

\* ---------------------------------------------------------------------
\* The worker pool under the Router (company_brain.py 450-469)
\* ---------------------------------------------------------------------
\* workers and counter values of the pool specification
MaxPoolWorkers == 3
MaxPoolAssigned == 11

\* owner labels that hold "virtual"
PoolOwners == {"Virtual SDR", "Virtual Content Writer"}

\* what _maybe_route_task_to_virtual_staff does to the roster for a task whose owner
\* label is `owner`: ensure_capacity_for_role(role=owner, min_task_slots=10), then
\* assign_task_to_virtual_employee(cap_res["employee"].id); the execution of the task
\* that follows does not touch the roster
route_to_pool(owner) ==
    LET cap == ensure_capacity_for_role(employees, owner, MinTaskSlots)
        after == assign_task_to_virtual_employee(cap.employees, cap.employee)
    IN /\ Len(after) <= MaxPoolWorkers
       /\ \A k \in 1..Len(after) : after[k].tasks_assigned_today <= MaxPoolAssigned
       /\ employees' = after
       /\ last' = Call("route_to_pool", cap.employee, FALSE, FALSE,
                       <<[created |-> cap.created, capacity_before |-> cap.capacity_before]>>)
       /\ UNCHANGED <<tasks, links, reviews, tools, execution_mode, brain_execution_mode, kpi, writers, scheduler, reviewers>>

NextPool ==
    \/ \E owner \in PoolOwners : route_to_pool(owner)
    \/ reset_daily_task_counters

SpecPool == Init /\ [][NextPool]_vars

\* ---------------------------------------------------------------------
\* Properties of the worker pool
\* ---------------------------------------------------------------------
\* C33: no worker's tasks_assigned_today exceeds its max_daily_tasks: the worker the
\* Router assigned a task to had a free slot.
C33_NoWorkerOverItsDailyLimit ==
    \A k \in 1..Len(employees) :
        employees[k].tasks_assigned_today <= employees[k].max_daily_tasks

\* ---------------------------------------------------------------------
\* Properties of done parents
\* ---------------------------------------------------------------------
HasChildren(lk, id) == get_children_ids(lk, id) # <<>>

\* C34 as stated: in every state, a task that has children and is done has every
\* child done and approved.
C34_DoneParentsHaveApprovedChildren ==
    \A i \in 1..Len(tasks) :
        (HasChildren(links, tasks[i].id) /\ tasks[i].status = "done")
        => ChildrenReady(tasks, links, reviews, tasks[i].id)

\* C34, amended: a step sets a task that has children to done only if it is
\* mark_task_done_by_delegate called on that task, or run_pending_tasks executing it,
\* or every child of the task is done and approved when the step ends.
C34_Step ==
    \A i \in 1..Len(tasks) :
        (/\ HasChildren(links, tasks[i].id)
         /\ tasks[i].status # "done" /\ tasks'[i].status = "done")
        => \/ last'.op = "mark_task_done_by_delegate" /\ last'.id = tasks[i].id
           \/ last'.op = "run_pending_tasks"
           \/ ChildrenReady(tasks', links', reviews', tasks[i].id)

C34_ParentsCloseDirectlyOrWithApprovedChildren == [][C34_Step]_vars

\* run_pending_tasks has executed a parent and its child: both are done, and the
\* child was never reviewed
C34_Witness ==
    /\ last.op = "run_pending_tasks" /\ last.pending >= 2
    /\ \E i \in 1..Len(tasks) :
          /\ HasChildren(links, tasks[i].id)
          /\ tasks[i].status = "done"
          /\ \E c \in Range(get_children_ids(links, tasks[i].id)) :
                StatusOf(tasks, c) = "done" /\ get_review_status(reviews, c) = "none"

\* ---------------------------------------------------------------------
\* Properties of the counters under run_pending_tasks
\* ---------------------------------------------------------------------
\* tasks_assigned_today of worker k of a roster, 0 for a worker not yet in it
CounterOf(emps, k) == IF k <= Len(emps) THEN emps[k].tasks_assigned_today ELSE 0

SumOfCounters(emps) == SumOver([k \in 1..Len(emps) |-> emps[k].tasks_assigned_today], 1..Len(emps))

PoolEntries(results) == {n \in 1..Len(results) : results[n].tier \in {"pool", "pool_fallback"}}

\* between the rosters before and after the task, one active worker has one task
\* more and every other counter is the same
CountedOnce(r) ==
    /\ Len(r.workers_after) \in {Len(r.workers_before), Len(r.workers_before) + 1}
    /\ \E k \in 1..Len(r.workers_after) :
          /\ r.workers_after[k].active
          /\ r.workers_after[k].tasks_assigned_today = CounterOf(r.workers_before, k) + 1
          /\ \A j \in 1..Len(r.workers_after) :
                j # k => r.workers_after[j].tasks_assigned_today = CounterOf(r.workers_before, j)

\* C35: in a batch that returns, each task routed to the pool adds one to the counter
\* of exactly one active worker, whether its execution succeeded or not, every other
\* task leaves the counters alone, and the sum of the counters grows by the number of
\* tasks the batch routed to the pool.
C35_Step ==
    (last'.op = "run_pending_tasks" /\ ~last'.raised)
    => /\ \A n \in 1..Len(last'.results) :
             IF n \in PoolEntries(last'.results)
             THEN CountedOnce(last'.results[n])
             ELSE \A k \in 1..Len(last'.results[n].workers_after) :
                     last'.results[n].workers_after[k].tasks_assigned_today
                        = CounterOf(last'.results[n].workers_before, k)
       /\ SumOfCounters(employees') = SumOfCounters(employees)
                                      + Cardinality(PoolEntries(last'.results))

Registries ==
    << ve_role_configs,
       << [role_id |-> "content_writer", title |-> "Content Writer"],
          [role_id |-> "writer", title |-> "Staff Author"] >>,
       << [role_id |-> "writer", title |-> "Staff Author"],
          [role_id |-> "content_writer", title |-> "Content Writer"] >>,
       << [role_id |-> "content_writer", title |-> "Copy Desk"],
          [role_id |-> "content writer", title |-> "Content Writer"],
          [role_id |-> "sdr", title |-> "Sales Rep"] >> >>

NormalizeLabels ==
    {"content_writer", "writer", "content writer", "sdr", "product_manager",
     "Virtual Content Writer", "VIRTUAL  writer ", "virtual content-writer",
     "Content Writer", "content-writer", " Product Manager",
     "Senior Writer", "Staff Lead", "Head of Product", "Virtual Sales Rep",
     "the pro", "prod ops", "SDR", "CEO-Agent", "virtual", "Virtual ", "",
     "Copy Chief", "virtualwriter", "Desk"}

\* the label and the registry are given
InitNormalize ==
    /\ tasks = <<>>
    /\ links = <<>>
    /\ reviews = <<>>
    /\ employees = <<>>
    /\ tools = {"log_tool"}
    /\ execution_mode = "auto"
    /\ brain_execution_mode = "auto"
    /\ kpi = NoKpi
    /\ writers = NoWriters
    /\ scheduler = NoScheduler
    /\ reviewers = NoReviewers
    /\ \E g \in DOMAIN Registries, label \in NormalizeLabels :
          last = Call("load_role_configs", <<g, label>>, FALSE, FALSE, <<>>)

\* CompanyBrain._normalize_role_to_role_id(role_name) with that registry
call_normalize_role_to_role_id ==
    /\ last.op = "load_role_configs"
    /\ last' = Call("_normalize_role_to_role_id", last.id, FALSE, FALSE,
                    <<match_role_id_in(Registries[last.id[1]], strip_virtual(last.id[2]))>>)
    /\ UNCHANGED <<tasks, links, reviews, employees, tools, execution_mode, brain_execution_mode, kpi, writers, scheduler, reviewers>>

NextNormalize == call_normalize_role_to_role_id

SpecNormalize == InitNormalize /\ [][NextNormalize]_vars

\* ---------------------------------------------------------------------
\* Properties of the owner-label normalization
\* ---------------------------------------------------------------------
TheRegistry == Registries[last.id[1]]
TheLabel == last.id[2]
IdsOf(configs) == {configs[c].role_id : c \in DOMAIN configs}

\* the label lower-cased and trimmed, without a leading "virtual " and trimmed again
Stripped(label) ==
    LET l == Strip(Lower(label))
    IN IF Len(l) >= 8 /\ SubSeq(l, 1, 8) = "virtual " THEN Strip(SubSeq(l, 9, Len(l))) ELSE l

\* the roles, by position, whose identifier or title holds a token of the label that
\* is longer than three characters
Overlapping(configs, s) ==
    {c \in DOMAIN configs :
        \E w \in Range(Split(s)) :
            /\ Len(w) > 3
            /\ Contains(configs[c].role_id, w) \/ Contains(Lower(configs[c].title), w)}

\* C36: the result is the stripped label if it is a role identifier; else the label
\* with blanks and hyphens as underscores if that is one; else the identifier of the
\* first role of the registry that a token longer than three characters overlaps;
\* else None. A role identifier normalizes to itself.
C36_OrderedMatch ==
    last.op = "_normalize_role_to_role_id"
    => LET s == Stripped(TheLabel)
           ids == IdsOf(TheRegistry)
           hits == Overlapping(TheRegistry, s)
           result == last.results[1]
       IN /\ s \in ids => result = s
          /\ (s \notin ids /\ underscored(s) \in ids) => result = underscored(s)
          /\ (s \notin ids /\ underscored(s) \notin ids /\ hits # {})
             => \E c \in hits : result = TheRegistry[c].role_id /\ \A d \in hits : c <= d
          /\ (s \notin ids /\ underscored(s) \notin ids /\ hits = {}) => result = None
          /\ TheLabel \in ids => result = TheLabel

\* an exact identifier wins although an earlier role overlaps the label
C36_Witness ==
    /\ last.op = "_normalize_role_to_role_id"
    /\ Stripped(TheLabel) \in IdsOf(TheRegistry)
    /\ \E c \in Overlapping(TheRegistry, Stripped(TheLabel)) :
          TheRegistry[c].role_id # last.results[1]
          /\ \A d \in DOMAIN TheRegistry : TheRegistry[d].role_id = last.results[1] => c < d

\* ---------------------------------------------------------------------
\* Properties of the stored history
\* ---------------------------------------------------------------------
WrittenMetric == last.id[1]
WrittenTimestamp == last.id[2]

\* C37: after every write that returned, no list of the stored history, of the
\* written metric or of another one, holds a reading older than 90 days before the
\* written reading.
C37_NoStoredReadingOlderThan90Days ==
    (last.op = "history.record_kpi" /\ ~last.raised)
    => \A m \in DOMAIN kpi.trend._kpi_history :
          \A k \in 1..Len(kpi.trend._kpi_history[m]) :
             kpi.trend._kpi_history[m][k].timestamp >= WrittenTimestamp - RetentionDays

\* C38: every record_kpi returns normally, and the reading is then the last of its
\* metric's list.
C38_RecordKpiAppendsAndReturns ==
    last.op = "history.record_kpi"
    => /\ ~last.raised
       /\ WrittenMetric \in DOMAIN kpi.trend._kpi_history
       /\ kpi.trend._kpi_history[WrittenMetric] # <<>>
       /\ LET entries == kpi.trend._kpi_history[WrittenMetric]
          IN entries[Len(entries)] = [timestamp |-> WrittenTimestamp, value |-> last.id[3]]

====
